---- MODULE Spec2Model ----
(***************************************************************************)
(* Language Detective: the provider fan-out / aggregation core.            *)
(*                                                                         *)
(*   src/src/connectors/base.py   BaseConnector.execute_with_metrics       *)
(*   src/src/coordinator.py       LanguageDetectionCoordinator             *)
(*   src/src/models.py            ProviderResult, LanguageDetectionResponse*)
(*                                                                         *)
(* The coordinator runs on one asyncio event loop.  A provider invocation  *)
(* is a coroutine: it runs without interruption until its detect_language  *)
(* suspends on I/O, and it resumes when that I/O completes.  A connector   *)
(* whose detect_language does its network I/O with a synchronous call      *)
(* never suspends: it keeps the event loop until the call returns.         *)
(***************************************************************************)
EXTENDS Integers, Sequences, FiniteSets, TLC

\* ------------------------------------------------------------------ bounds
\* Largest registry built (the shipped coordinator registers four connectors).
MaxProviders == 2
\* Time is counted in ticks since the call in progress began, 0..MaxClock.
MaxClock == 2
\* The overall deadline a caller of detect_all would like to impose (ticks).
Deadline == 1

\* ------------------------------------------------------------- value types
\* Python's None.
None == "None"

\* models.py: ProviderStatus members.
SUCCESS == "success"
FAILURE == "failure"
ERROR == "error"

ProviderStatus == {SUCCESS, FAILURE, ERROR}

\* models.py: ProviderResult(provider_name, detected_language, time_taken,
\* estimated_cost, status, error_message).
ProviderResult(name, lang, time_taken, cost, status, msg) ==
    [provider_name     |-> name,
     detected_language |-> lang,
     time_taken        |-> time_taken,
     estimated_cost    |-> cost,
     status            |-> status,
     error_message     |-> msg]

\* coordinator.py:44: the cost the coordinator gives a provider whose
\* invocation ended in an exception.  dollars are counted in micro-dollars.
ZeroCost == [tokens |-> 0, dollars |-> 0]

\* What a stub provider's estimate_cost returns when it returns (the default
\* estimate of gemini.py:86-89: 100 tokens, $0.01).
StubCost == [tokens |-> 100, dollars |-> 10000]

\* ----------------------------------------------------------------- inputs
\* coordinator.py:15-20 with each connector's super().__init__(name).
RegistryOrder ==
    <<"Google Gemini", "Sarvam AI (Mock)", "OpenAI (Mock)", "ElevenLabs">>

\* sarvam.py:13: a connector of the repository the coordinator never registers.
UnregisteredName == "Sarvam AI"

\* Names a caller may pass to detect_language_single_provider.
RequestNames == {RegistryOrder[k] : k \in 1..Len(RegistryOrder)} \cup {UnregisteredName}

\* test_mock_only.py:30-33: audio references handed to the coordinator.
AudioRefs == {"hindi_audio.wav"}

\* How a connector's detect_language does its network I/O:
\*   "sync"  - a blocking call made on the event loop's thread
\*             (gemini.py:51 generate_content, elevenlabs.py:68 requests.post);
\*   "async" - an awaited call that yields the loop
\*             (sarvam_mock.py:16, openai_mock.py:17 asyncio.sleep).
IoKind(name) ==
    IF name \in {"Google Gemini", "ElevenLabs"} THEN "sync" ELSE "async"

Languages == {"en", "hi"}
Messages == {"network error"}
CostErrorMessage == "cost error"

\* What a provider's detect_language does when called: return a language
\* code, raise Exception(message), or never complete.
DetectBehaviours ==
    {[kind |-> "return", value |-> l] : l \in Languages}
        \cup {[kind |-> "raise", value |-> m] : m \in Messages}
        \cup {[kind |-> "hang", value |-> None]}

\* What a provider's estimate_cost does when called: return an estimate,
\* raise on every call, or raise on the first call of an invocation only.
CostBehaviours == {"ok", "raise", "raise_once"}

\* ------------------------------------------------ the concrete connectors
\* The world a connector's calls reach: the file behind the audio reference
\* and the vendor's answer to a request.  The stub providers of the
\* coordinator-level model touch neither.
NoEnv == [kind |-> "none"]

\* 1024 * 1024, the bytes the connectors count as one minute of audio.
MB == 1024 * 1024

\* The file an audio reference names: absent, present with a size, or
\* present but not openable.  15 bytes is test_service.py:30's file; the
\* larger size is above every connector's minimum charge.
FileSizes == {0, 15, 300000}
Files ==
    {[state |-> "missing", size |-> 0]}
        \cup {[state |-> "ok", size |-> n] : n \in FileSizes}
        \cup {[state |-> "unreadable", size |-> 15]}

\* str(e) of the OSError that open() or os.path.getsize raises.
FileErrorMessage(file) ==
    IF file.state = "missing"
    THEN "No such file or directory" ELSE "Permission denied"

\* What the vendor does with a request: the connection fails, or an HTTP
\* answer arrives whose body is a detected language code (200), nothing
\* usable (an error status), or "malformed": a 200 whose payload cannot be
\* decoded.
Malformed == "malformed"
NetworkError == [kind |-> "network_error", status |-> 0, body |-> None]
HttpAnswer(status, body) == [kind |-> "http", status |-> status, body |-> body]
VendorAnswers ==
    {NetworkError}
        \cup {HttpAnswer(st, None) : st \in {400, 500}}
        \cup {HttpAnswer(200, Malformed)}
        \cup {HttpAnswer(200, l) : l \in Languages}

Envs == {[kind |-> "world", file |-> f, vendor |-> v] :
            f \in Files, v \in VendorAnswers}

Max(a, b) == IF a >= b THEN a ELSE b

\* Python's round(n / d) for integers n >= 0, d > 0: ties go to the even one.
RoundDiv(n, d) ==
    LET q == n \div d
        r == n % d
    IN  IF 2 * r > d \/ (2 * r = d /\ q % 2 = 1) THEN q + 1 ELSE q

\* A cost estimate {"tokens": t, "dollars": d}, d counted in micro-dollars.
Cost(tokens, microdollars) == [tokens |-> tokens, dollars |-> microdollars]

\* The estimate each estimate_cost returns from its except clause.
GeminiDefaultCost == Cost(100, 10000)
SarvamMockDefaultCost == Cost(100, 1000)
OpenAIMockDefaultCost == Cost(1000, 6000)
ElevenLabsDefaultCost == Cost(1000, 5000)

\* The default estimate of the registered connector of that name.
DefaultCost(name) ==
    CASE name = "Google Gemini" -> GeminiDefaultCost
      [] name = "Sarvam AI (Mock)" -> SarvamMockDefaultCost
      [] name = "OpenAI (Mock)" -> OpenAIMockDefaultCost
      [] name = "ElevenLabs" -> ElevenLabsDefaultCost

\* gemini.py:72-89: max(100, size // 4) tokens at $0.0001 each.
GeminiEstimateCost(file) ==
    IF file.state = "missing" THEN GeminiDefaultCost
    ELSE LET tokens == Max(100, file.size \div 4)
         IN  Cost(tokens, tokens * 100)

\* sarvam_mock.py:64-77: int(size / 100) tokens, $0.001 per MB rounded to
\* six places.
SarvamMockEstimateCost(file) ==
    IF file.state = "missing" THEN SarvamMockDefaultCost
    ELSE Cost(file.size \div 100, RoundDiv(file.size * 1000, MB))

\* openai_mock.py:50-67: minutes = max(0.1, size / MB); int(minutes * 1000)
\* tokens, $0.006 per minute rounded to six places.
OpenAIMockEstimateCost(file) ==
    IF file.state = "missing" THEN OpenAIMockDefaultCost
    ELSE Cost(Max(100, (file.size * 1000) \div MB),
              Max(600, RoundDiv(file.size * 6000, MB)))

\* elevenlabs.py:225-239: minutes = max(0.1, size / MB); int(minutes * 1000)
\* tokens, $0.005 per minute rounded to four places.
ElevenLabsEstimateCost(file) ==
    IF file.state = "missing" THEN ElevenLabsDefaultCost
    ELSE Cost(Max(100, (file.size * 1000) \div MB),
              100 * Max(5, RoundDiv(file.size * 50, MB)))

\* Mutant of ConnectorEstimateCost: os.path.getsize is called outside any
\* try block, so its OSError leaves estimate_cost.
ConnectorEstimateCostUnguarded(name, file) ==
    [raised  |-> file.state = "missing",
     value   |-> CASE name = "Google Gemini" -> GeminiEstimateCost(file)
                   [] name = "Sarvam AI (Mock)" -> SarvamMockEstimateCost(file)
                   [] name = "OpenAI (Mock)" -> OpenAIMockEstimateCost(file)
                   [] name = "ElevenLabs" -> ElevenLabsEstimateCost(file),
     message |-> FileErrorMessage(file)]

\* estimate_cost of the registered connector of that name: each body is one
\* try block whose except clause returns the default, so it always returns.
ConnectorEstimateCost(name, file) ==
    [raised  |-> FALSE,
     value   |-> CASE name = "Google Gemini" -> GeminiEstimateCost(file)
                   [] name = "Sarvam AI (Mock)" -> SarvamMockEstimateCost(file)
                   [] name = "OpenAI (Mock)" -> OpenAIMockEstimateCost(file)
                   [] name = "ElevenLabs" -> ElevenLabsEstimateCost(file),
     message |-> None]

\* File names are sequences of one-character strings.
UpperCase == 
    <<"A", "B", "C", "D", "E", "F", "G", "H", "I", "J", "K", "L", "M",
      "N", "O", "P", "Q", "R", "S", "T", "U", "V", "W", "X", "Y", "Z">>
LowerCase == 
    <<"a", "b", "c", "d", "e", "f", "g", "h", "i", "j", "k", "l", "m",
      "n", "o", "p", "q", "r", "s", "t", "u", "v", "w", "x", "y", "z">>

\* str.lower() on the letters a file name is written with.
LowerChar(c) ==
    IF \E k \in 1..Len(UpperCase) : UpperCase[k] = c
    THEN LowerCase[CHOOSE k \in 1..Len(UpperCase) : UpperCase[k] = c]
    ELSE c
Lower(cs) == [k \in 1..Len(cs) |-> LowerChar(cs[k])]

\* os.path.basename: what follows the last "/".
Basename(cs) ==
    LET slashes == {k \in 1..Len(cs) : cs[k] = "/"}
        last == IF slashes = {} THEN 0
                ELSE CHOOSE k \in slashes : \A j \in slashes : j <= k
    IN  SubSeq(cs, last + 1, Len(cs))

\* Python's `word in name` for strings.
Contains(cs, word) ==
    \E k \in 1..(Len(cs) - Len(word) + 1) :
        SubSeq(cs, k, k + Len(word) - 1) = word

\* The characters of the paths that callers pass.
PathChars ==
    ("hindi_audio.wav" :>
        (<<"h", "i", "n", "d", "i", "_", "a", "u", "d">> \o
         <<"i", "o", ".", "w", "a", "v">>)) @@
    ("english_conversation.wav" :>
        (<<"e", "n", "g", "l", "i", "s", "h", "_", "c">> \o
         <<"o", "n", "v", "e", "r", "s", "a", "t", "i">> \o
         <<"o", "n", ".", "w", "a", "v">>)) @@
    ("notes.txt" :>
        (<<"n", "o", "t", "e", "s", ".", "t", "x", "t">>)) @@
    ("SONG.MP3" :>
        (<<"S", "O", "N", "G", ".", "M", "P", "3">>)) @@
    ("README" :>
        (<<"R", "E", "A", "D", "M", "E">>)) @@
    (".wav" :>
        (<<".", "w", "a", "v">>)) @@
    ("/data.v2/tamil_speech" :>
        (<<"/", "d", "a", "t", "a", ".", "v", "2", "/">> \o
         <<"t", "a", "m", "i", "l", "_", "s", "p", "e">> \o
         <<"e", "c", "h">>))

\* sarvam_mock.py:21-62 and openai_mock.py:23-48: the if/elif chains, in order.
SarvamMockKeywords ==
    <<[word |-> <<"h", "i", "n", "d", "i">>, code |-> "hi"],
      [word |-> <<"t", "a", "m", "i", "l">>, code |-> "ta"],
      [word |-> <<"t", "e", "l", "u", "g", "u">>, code |-> "te"],
      [word |-> <<"k", "a", "n", "n", "a", "d", "a">>, code |-> "kn"],
      [word |-> <<"m", "a", "l", "a", "y", "a", "l", "a", "m">>, code |-> "ml"],
      [word |-> <<"b", "e", "n", "g", "a", "l", "i">>, code |-> "bn"],
      [word |-> <<"m", "a", "r", "a", "t", "h", "i">>, code |-> "mr"],
      [word |-> <<"g", "u", "j", "a", "r", "a", "t", "i">>, code |-> "gu"],
      [word |-> <<"p", "u", "n", "j", "a", "b", "i">>, code |-> "pa"],
      [word |-> <<"u", "r", "d", "u">>, code |-> "ur"],
      [word |-> <<"s", "a", "n", "s", "k", "r", "i", "t">>, code |-> "sa"],
      [word |-> <<"f", "r", "e", "n", "c", "h">>, code |-> "fr"],
      [word |-> <<"g", "e", "r", "m", "a", "n">>, code |-> "de"],
      [word |-> <<"s", "p", "a", "n", "i", "s", "h">>, code |-> "es"],
      [word |-> <<"c", "h", "i", "n", "e", "s", "e">>, code |-> "zh"],
      [word |-> <<"j", "a", "p", "a", "n", "e", "s", "e">>, code |-> "ja"],
      [word |-> <<"k", "o", "r", "e", "a", "n">>, code |-> "ko"],
      [word |-> <<"a", "r", "a", "b", "i", "c">>, code |-> "ar"],
      [word |-> <<"r", "u", "s", "s", "i", "a", "n">>, code |-> "ru"]>>
OpenAIMockKeywords == SubSeq(SarvamMockKeywords, 1, 11)

\* Mutant of MockDetect: the last keyword of the chain wins.
MockDetectLastKeyword(keywords, path) ==
    LET file_name == Lower(Basename(path))
        hits == {k \in 1..Len(keywords) : Contains(file_name, keywords[k].word)}
    IN  IF hits = {} THEN "en"
        ELSE keywords[CHOOSE k \in hits : \A j \in hits : j <= k].code

\* The mock connectors' detect_language: the code of the first keyword of
\* the chain that the lowercased base name contains, "en" if none.
MockDetect(keywords, path) ==
    LET file_name == Lower(Basename(path))
        hits == {k \in 1..Len(keywords) : Contains(file_name, keywords[k].word)}
    IN  IF hits = {} THEN "en"
        ELSE keywords[CHOOSE k \in hits : \A j \in hits : k <= j].code

\* A detect_language call's end: a returned code or a raised exception.
DetectReturns(code) == [kind |-> "return", value |-> code]
DetectRaises(msg) == [kind |-> "raise", value |-> msg]

RECURSIVE JoinChars(_)
\* "".join(cs): the string a sequence of characters spells.
JoinChars(cs) == IF cs = <<>> THEN "" ELSE Head(cs) \o JoinChars(Tail(cs))

\* gemini.py:60-61: valid_codes, spelled out.
GeminiValidCodeChars ==
    {<<"e", "n">>, <<"h", "i">>, <<"t", "a">>, <<"t", "e">>, <<"k", "n">>,
     <<"m", "l">>, <<"b", "n">>, <<"m", "r">>, <<"g", "u">>, <<"p", "a">>,
     <<"u", "r">>, <<"s", "a">>, <<"f", "r">>, <<"d", "e">>, <<"e", "s">>,
     <<"z", "h">>, <<"j", "a">>, <<"k", "o">>, <<"a", "r">>, <<"r", "u">>}
GeminiValidCodes == {JoinChars(cs) : cs \in GeminiValidCodeChars}

\* gemini.py:20-70: any failure of open(), of generate_content or of reading
\* response.text is raised again with the prefix; an answer outside the
\* list of valid codes becomes "en".  The vendor's codes here are already
\* stripped and lowercase.
GeminiDetect(file, vendor) ==
    IF file.state # "ok"
    THEN DetectRaises("Gemini API error: " \o FileErrorMessage(file))
    ELSE IF vendor.kind = "network_error"
    THEN DetectRaises("Gemini API error: network error")
    ELSE IF vendor.status # 200
    THEN DetectRaises("Gemini API error: vendor error")
    ELSE IF vendor.body = Malformed
    THEN DetectRaises("Gemini API error: malformed response")
    ELSE DetectReturns(IF vendor.body \in GeminiValidCodes
                       THEN vendor.body ELSE "en")

\* elevenlabs.py:48-104: the decoded answer of the vendor, or None: open()
\* failing, requests.post raising, a status other than 200 (a 400 is asked
\* again in the other file format and answered alike) and response.json()
\* raising all end in None.
ElevenLabsTranscribe(file, vendor) ==
    IF file.state # "ok" THEN None
    ELSE IF vendor.kind = "network_error" THEN None
    ELSE IF vendor.status # 200 THEN None
    ELSE IF vendor.body = Malformed THEN None
    ELSE vendor.body

\* elevenlabs.py:23-46: "en" for a missing file, "en" when the transcription
\* gave nothing, else the language of the result (here a "detected_language"
\* that is a lowercase primary code already, which _clean_language_code
\* leaves as it is).
ElevenLabsDetect(file, vendor) ==
    IF file.state = "missing" THEN DetectReturns("en")
    ELSE LET result == ElevenLabsTranscribe(file, vendor)
         IN  IF result # None THEN DetectReturns(result)
             ELSE DetectReturns("en")

\* detect_language of the registered connector of that name.
ConnectorDetect(name, audio, world) ==
    CASE name = "Google Gemini" -> GeminiDetect(world.file, world.vendor)
      [] name = "Sarvam AI (Mock)" ->
            DetectReturns(MockDetect(SarvamMockKeywords, PathChars[audio]))
      [] name = "OpenAI (Mock)" ->
            DetectReturns(MockDetect(OpenAIMockKeywords, PathChars[audio]))
      [] name = "ElevenLabs" -> ElevenLabsDetect(world.file, world.vendor)

\* Whether a provider call of the connector fails in that world: the mock
\* connectors open no file and call no vendor.
ProviderCallFails(name, world) ==
    /\ name \in {"Google Gemini", "ElevenLabs"}
    /\ \/ world.file.state # "ok"
       \/ world.vendor.kind = "network_error"
       \/ world.vendor.status # 200
       \/ world.vendor.body = Malformed

VARIABLES
    providers,        \* coordinator.providers: the registry, a sequence of names
    detectBeh,        \* per registry position: the provider's detect_language
    costBeh,          \* per registry position: the provider's estimate_cost
    clock,            \* time.time(), relative to the start of the last call
    pc,               \* "idle" | "gather" (detect_all at its join) | "single"
    req,              \* the coordinator call in progress, or the last one made
    task,             \* per registry position: the wrapped invocation of this call
    completionOrder,  \* registry positions in the order their invocations finished
    response,         \* what the last finished call returned or raised
    detectCalls,      \* per registry position: detect_language calls of the last call
    costCalls,        \* per registry position: estimate_cost calls of the last call
    prevAll,          \* history: the last detect_all response before this call, untimed
    env,              \* the world of the concrete connectors: the file and the vendor
    calls,            \* detect_all calls in flight together, by caller
    lastStarted,      \* history: per provider, the audio of its latest invocation
    http,             \* main.py: the HTTP request being handled and its answer
    ctor,             \* LanguageDetectionCoordinator.__init__ in progress
    frame             \* the frame of a connector method running on its own

\* The coordinator, its providers and their world.
coordVars == <<providers, detectBeh, costBeh, clock, pc, req, task,
               completionOrder, response, detectCalls, costCalls, prevAll, env>>

\* The callers and layers around one coordinator call, and connector methods
\* run on their own.
otherVars == <<calls, lastStarted, http, ctor, frame>>

vars == <<coordVars, otherVars>>

N == Len(providers)
Positions == 1..N
RegisteredNames == {providers[i] : i \in Positions}

\* ------------------------------------------------------- wrapper results
\* The result of awaiting something: a returned value or a raised exception.
NoOutcome == ProviderResult(None, None, 0, ZeroCost, None, None)
NoResult == [kind |-> "none", value |-> NoOutcome, message |-> None]
Returned(v) == [kind |-> "outcome", value |-> v, message |-> None]
Raised(m) == [kind |-> "exception", value |-> NoOutcome, message |-> m]

\* estimate_cost, k-th call within one invocation of the wrapper: a stub's
\* as its behaviour says, a concrete connector's from the file.
EstimateCost(i, k) ==
    IF costBeh[i] = "raise" \/ (costBeh[i] = "raise_once" /\ k = 1)
    THEN [raised |-> TRUE, value |-> ZeroCost, message |-> CostErrorMessage]
    ELSE IF env.kind = "none"
    THEN [raised |-> FALSE, value |-> StubCost, message |-> None]
    ELSE ConnectorEstimateCost(providers[i], env.file)

\* Mutant of ExecuteWithMetrics: the handler's ERROR outcome keeps the
\* language detect_language had returned.
ExecuteWithMetricsKeepingLanguage(i, time_taken) ==
    LET d == detectBeh[i]
        c1 == EstimateCost(i, 1)
        c2 == EstimateCost(i, 2)
    IN  IF d.kind = "return"
        THEN IF ~c1.raised
             THEN Returned(ProviderResult(providers[i], d.value, time_taken,
                                          c1.value, SUCCESS, None))
             ELSE IF ~c2.raised
                  THEN Returned(ProviderResult(providers[i], d.value, time_taken,
                                               c2.value, ERROR, c1.message))
                  ELSE Raised(c2.message)
        ELSE IF ~c1.raised
             THEN Returned(ProviderResult(providers[i], None, time_taken,
                                          c1.value, ERROR, d.value))
             ELSE Raised(c1.message)

\* base.py:23-50: what execute_with_metrics of the provider called name
\* yields once detect_language has ended as d says, c1 and c2 being what
\* its first and second estimate_cost calls do.  The SUCCESS ProviderResult
\* is built inside the try block, so an exception of estimate_cost there is
\* caught by the handler, which calls estimate_cost again outside any try
\* block.
WrapperOutcome(name, d, c1, c2, time_taken) ==
    IF d.kind = "return"
    THEN IF ~c1.raised
         THEN Returned(ProviderResult(name, d.value, time_taken,
                                      c1.value, SUCCESS, None))
         ELSE IF ~c2.raised
              THEN Returned(ProviderResult(name, None, time_taken,
                                           c2.value, ERROR, c1.message))
              ELSE Raised(c2.message)
    ELSE IF ~c1.raised
         THEN Returned(ProviderResult(name, None, time_taken,
                                      c1.value, ERROR, d.value))
         ELSE Raised(c1.message)

\* execute_with_metrics of the provider at registry position i.
ExecuteWithMetrics(i, time_taken) ==
    WrapperOutcome(providers[i], detectBeh[i], EstimateCost(i, 1),
                   EstimateCost(i, 2), time_taken)

\* Mutant of DetectAttempts: once an earlier response exists, its outcome is
\* served again without calling detect_language.
DetectAttemptsCached(i) == IF prevAll.kind = "response" THEN 0 ELSE 1

\* base.py:28: the detect_language calls one execute_with_metrics makes: a
\* single await, in no loop, with no lookup of an earlier outcome.
DetectAttempts(i) == 1

\* The number of estimate_cost calls execute_with_metrics makes.
CostCallsMade(i) ==
    IF detectBeh[i].kind = "return" /\ EstimateCost(i, 1).raised THEN 2 ELSE 1

\* ------------------------------------------------------------ event loop
IdleTask == [state |-> "none", start_time |-> 0, end_time |-> 0, result |-> NoResult]
PendingTask == [state |-> "pending", start_time |-> 0, end_time |-> 0, result |-> NoResult]
RunningTask(now) == [state |-> "io", start_time |-> now, end_time |-> 0, result |-> NoResult]

\* Invocation i is inside a synchronous network call: the loop's thread is its.
HoldsLoop(i) == task[i].state = "io" /\ IoKind(providers[i]) = "sync"

\* The event loop can run a step of invocation i.
CanRun(i) == \A j \in Positions \ {i} : ~HoldsLoop(j)

\* Mutant of GatherReady: the join returns at the first completion.
GatherFirstCompleted == \E i \in Positions : task[i].state = "done"

\* asyncio.gather (coordinator.py:33): every awaitable has finished.
GatherReady == \A i \in Positions : task[i].state = "done"

\* Mutant of GatherResults: results collected in completion order.
GatherResultsByCompletion ==
    [k \in Positions |-> task[completionOrder[k]].result]

\* asyncio.gather(..., return_exceptions=True): the results in the order of
\* the awaitables passed, i.e. registry order.
GatherResults == [i \in Positions |-> task[i].result]

\* Mutant of ProcessResult: the error result is given the status FAILURE.
ProcessResultAsFailure(i, r) ==
    IF r.kind = "exception"
    THEN ProviderResult(providers[i], None, 0, ZeroCost, FAILURE, r.message)
    ELSE r.value

\* coordinator.py:37-50: one gathered result, processed.
ProcessResult(i, r) ==
    IF r.kind = "exception"
    THEN ProviderResult(providers[i], None, 0, ZeroCost, ERROR, r.message)
    ELSE r.value

\* Mutant of CountSuccess: every processed result is counted.
CountSuccessUnconditional(rs) == Len(rs)

RECURSIVE CountSuccess(_)
\* coordinator.py:55: sum(1 for r in processed_results if r.status == "success")
CountSuccess(rs) ==
    IF rs = <<>> THEN 0
    ELSE (IF Head(rs).status = SUCCESS THEN 1 ELSE 0) + CountSuccess(Tail(rs))

\* Mutant of BuildResponse: successful_providers accumulates over the calls
\* made to the coordinator.
BuildResponseCumulative(results, total_time) ==
    LET processed == [i \in Positions |-> ProcessResult(i, results[i])]
        ok == CountSuccess(processed)
        before == IF prevAll.kind = "response"
                  THEN prevAll.successful_providers ELSE 0
    IN  [kind                 |-> "response",
         results              |-> processed,
         total_time           |-> total_time,
         successful_providers |-> ok + before,
         failed_providers     |-> Len(processed) - ok]

\* Mutant of BuildResponse: failed_providers counts the results whose status
\* is "failure".
BuildResponseCountingFailure(results, total_time) ==
    LET processed == [i \in Positions |-> ProcessResult(i, results[i])]
        ok == CountSuccess(processed)
    IN  [kind                 |-> "response",
         results              |-> processed,
         total_time           |-> total_time,
         successful_providers |-> ok,
         failed_providers     |->
            Cardinality({i \in Positions : processed[i].status = FAILURE})]

\* coordinator.py:35-63: the LanguageDetectionResponse built after the join.
BuildResponse(results, total_time) ==
    LET processed == [i \in Positions |-> ProcessResult(i, results[i])]
        ok == CountSuccess(processed)
    IN  [kind                 |-> "response",
         results              |-> processed,
         total_time           |-> total_time,
         successful_providers |-> ok,
         failed_providers     |-> Len(processed) - ok]

NoResponse == [kind |-> "none"]

\* A response with its timing fields (time_taken, total_time) blanked.
StripTiming(resp) ==
    [resp EXCEPT !.total_time = 0,
                 !.results = [k \in DOMAIN resp.results |->
                                [resp.results[k] EXCEPT !.time_taken = 0]]]

\* History kept when a new call begins: what the caller of an earlier
\* detect_language_all_providers holds, to compare later responses with.
Remember(resp, prev) ==
    IF resp.kind = "response" THEN StripTiming(resp) ELSE prev

\* Mutant of Lookup: next(...) defaults to the first provider instead of None.
LookupOrFirst(name) ==
    IF \E i \in Positions : providers[i] = name
    THEN CHOOSE i \in Positions : providers[i] = name
    ELSE 1

\* Mutant of Lookup: any registered name selects the first provider.
LookupFirstRegistered(name) ==
    IF \E i \in Positions : providers[i] = name THEN 1 ELSE 0

\* coordinator.py:67: next((p for p in providers if p.provider_name == name), None)
\* as a registry position, 0 for None.
Lookup(name) ==
    IF \E i \in Positions : providers[i] = name
    THEN CHOOSE i \in Positions :
            providers[i] = name /\ \A j \in 1..(i - 1) : providers[j] # name
    ELSE 0

\* Nothing but the coordinator is at work: no concurrent callers, no HTTP
\* request, the constructor has run, no connector method runs on its own.
NoCall == [state |-> "none"]
NoHttp == [stage |-> "none"]
NoCtor == [stage |-> "none"]
NoFrame == [fn |-> "none"]
OthersIdle ==
    /\ calls = <<>>
    /\ lastStarted = <<>>
    /\ http = NoHttp
    /\ ctor = NoCtor
    /\ frame = NoFrame

\* ------------------------------------------------------------------ Init
\* Mutant of Registries: a connector may be appended to the list twice.
RegistriesWithRepeats ==
    ({SubSeq(RegistryOrder, a, b) :
        a \in 1..Len(RegistryOrder),
        b \in 1..Len(RegistryOrder)} \ {<<>>})
    \cup {<<RegistryOrder[a], RegistryOrder[a]>> : a \in 1..Len(RegistryOrder)}

\* The registries built: runs of up to MaxProviders consecutive connectors of
\* coordinator.py:15-20, in that order.
Registries ==
    {SubSeq(RegistryOrder, a, b) :
        a \in 1..Len(RegistryOrder),
        b \in 1..Len(RegistryOrder)} \ {<<>>}

\* coordinator.py:14-20: the registry is built once; the providers' behaviour
\* is that of arbitrary BaseConnector subclasses.
Init ==
    /\ providers \in {r \in Registries : Len(r) <= MaxProviders}
    /\ detectBeh \in [1..Len(providers) -> DetectBehaviours]
    /\ costBeh \in [1..Len(providers) -> CostBehaviours]
    /\ clock = 0
    /\ pc = "idle"
    /\ req = [kind |-> "none", audio |-> None, provider_name |-> None, start_time |-> 0]
    /\ task = [i \in 1..Len(providers) |-> IdleTask]
    /\ completionOrder = <<>>
    /\ response = NoResponse
    /\ detectCalls = [i \in 1..Len(providers) |-> 0]
    /\ costCalls = [i \in 1..Len(providers) |-> 0]
    /\ prevAll = NoResponse
    /\ OthersIdle
    /\ env = NoEnv

\* --------------------------------------------------------------- actions
\* time.time() advances while a provider's network I/O is outstanding.
Tick ==
    /\ pc # "idle"
    /\ \E i \in Positions : task[i].state = "io"
    /\ clock < MaxClock
    /\ clock' = clock + 1
    /\ UNCHANGED <<otherVars, providers, detectBeh, costBeh, prevAll, env, pc,
                   req, task, completionOrder, response, detectCalls,
                   costCalls>>

\* coordinator.py:22-33: detect_language_all_providers up to its await: the
\* coroutines are created in registry order and handed to asyncio.gather.
CallDetectAll(audio) ==
    /\ pc = "idle"
    /\ pc' = "gather"
    /\ clock' = 0
    /\ req' = [kind |-> "all", audio |-> audio, provider_name |-> None,
               start_time |-> clock']
    /\ task' = [i \in Positions |-> PendingTask]
    /\ completionOrder' = <<>>
    /\ response' = NoResponse
    /\ detectCalls' = [i \in Positions |-> 0]
    /\ costCalls' = [i \in Positions |-> 0]
    /\ prevAll' = Remember(response, prevAll)
    /\ UNCHANGED <<otherVars, providers, detectBeh, costBeh, env>>

\* base.py:25-28: the loop starts invocation i (tasks start in the order
\* gather scheduled them); it records start_time and calls detect_language,
\* which goes into its network I/O.
TaskStart(i) ==
    /\ pc = "gather"
    /\ task[i].state = "pending"
    /\ \A j \in 1..(i - 1) : task[j].state # "pending"
    /\ CanRun(i)
    /\ task' = [task EXCEPT ![i] = RunningTask(clock)]
    /\ detectCalls' = [detectCalls EXCEPT ![i] = @ + DetectAttempts(i)]
    /\ UNCHANGED <<otherVars, providers, detectBeh, costBeh, prevAll, env,
                   clock, pc, req, completionOrder, response, costCalls>>

\* base.py:28-50: detect_language of invocation i returns or raises, and the
\* wrapper runs to its end.
DetectComplete(i) ==
    /\ pc = "gather"
    /\ task[i].state = "io"
    /\ detectBeh[i].kind # "hang"
    /\ CanRun(i)
    /\ task' = [task EXCEPT ![i] =
                  [state |-> "done", start_time |-> @.start_time, end_time |-> clock,
                   result |-> ExecuteWithMetrics(i, clock - @.start_time)]]
    /\ costCalls' = [costCalls EXCEPT ![i] = @ + CostCallsMade(i)]
    /\ completionOrder' = Append(completionOrder, i)
    /\ UNCHANGED <<otherVars, providers, detectBeh, costBeh, prevAll, env,
                   clock, pc, req, response, detectCalls>>

\* coordinator.py:33-63: gather hands over its results; the coordinator
\* processes them and returns the response.
Join ==
    /\ pc = "gather"
    /\ GatherReady
    /\ response' = BuildResponse(GatherResults, clock - req.start_time)
    /\ pc' = "idle"
    /\ UNCHANGED <<otherVars, providers, detectBeh, costBeh, prevAll, env,
                   clock, req, task, completionOrder, detectCalls, costCalls>>

\* coordinator.py:65-72: detect_language_single_provider up to its await.
\* An unknown name raises ValueError at once; a known one enters the wrapper
\* of that provider in the caller's own coroutine.
CallDetectOne(audio, name) ==
    /\ pc = "idle"
    /\ clock' = 0
    /\ req' = [kind |-> "one", audio |-> audio, provider_name |-> name,
               start_time |-> clock']
    /\ completionOrder' = <<>>
    /\ costCalls' = [i \in Positions |-> 0]
    /\ LET p == Lookup(name)
       IN  IF p = 0
           THEN /\ response' = [kind |-> "raised", exception |-> "ValueError",
                                message |-> "Provider '" \o name \o "' not found"]
                /\ pc' = "idle"
                /\ task' = [i \in Positions |-> IdleTask]
                /\ detectCalls' = [i \in Positions |-> 0]
           ELSE /\ response' = NoResponse
                /\ pc' = "single"
                /\ task' = [i \in Positions |->
                              IF i = p THEN RunningTask(clock') ELSE IdleTask]
                /\ detectCalls' = [i \in Positions |->
                                     IF i = p THEN DetectAttempts(p) ELSE 0]
    /\ prevAll' = Remember(response, prevAll)
    /\ UNCHANGED <<otherVars, providers, detectBeh, costBeh, env>>

\* What `return await provider.execute_with_metrics(path)` gives the caller.
SingleReturn(r) ==
    IF r.kind = "exception"
    THEN [kind |-> "raised", exception |-> "Exception", message |-> r.message]
    ELSE [kind |-> "outcome", value |-> r.value]

\* coordinator.py:72 with base.py:28-50: the awaited wrapper finishes and its
\* result (or exception) goes to the caller.
SingleComplete(i) ==
    /\ pc = "single"
    /\ task[i].state = "io"
    /\ detectBeh[i].kind # "hang"
    /\ task' = [task EXCEPT ![i] =
                  [state |-> "done", start_time |-> @.start_time, end_time |-> clock,
                   result |-> ExecuteWithMetrics(i, clock - @.start_time)]]
    /\ costCalls' = [costCalls EXCEPT ![i] = @ + CostCallsMade(i)]
    /\ completionOrder' = Append(completionOrder, i)
    /\ response' = SingleReturn(ExecuteWithMetrics(i, clock - task[i].start_time))
    /\ pc' = "idle"
    /\ UNCHANGED <<otherVars, providers, detectBeh, costBeh, prevAll, env,
                   clock, req, detectCalls>>

RECURSIVE Reverse(_)
\* list.reverse().
Reverse(xs) ==
    IF xs = <<>> THEN <<>> ELSE Append(Reverse(Tail(xs)), Head(xs))

\* The provider_name of a registered provider: the name its constructor
\* gave to BaseConnector.__init__ (base.py:9-10), by which the registry of
\* this model identifies it.
ProviderName(p) == p

\* Mutant of AvailableProviderNames: the names are listed from the last
\* registered provider to the first.
AvailableProviderNamesReversed ==
    Reverse([i \in Positions |-> ProviderName(providers[i])])

\* coordinator.py:76: [provider.provider_name for provider in self.providers]
AvailableProviderNames == [i \in Positions |-> ProviderName(providers[i])]

\* Mutant of RegistryAfterListing: the listing reverses self.providers in place.
RegistryReversedByListing == Reverse(providers)

\* coordinator.py:74-76: what get_available_providers leaves in self.providers.
RegistryAfterListing == providers

\* coordinator.py:74-76: get_available_providers, a synchronous call made
\* while no coordinator call is in progress.
GetAvailableProviders ==
    /\ pc = "idle"
    /\ req' = [kind |-> "list", audio |-> None, provider_name |-> None,
               start_time |-> 0]
    /\ response' = [kind |-> "names", value |-> AvailableProviderNames]
    /\ providers' = RegistryAfterListing
    /\ clock' = 0
    /\ task' = [i \in Positions |-> IdleTask]
    /\ completionOrder' = <<>>
    /\ detectCalls' = [i \in Positions |-> 0]
    /\ costCalls' = [i \in Positions |-> 0]
    /\ prevAll' = Remember(response, prevAll)
    /\ UNCHANGED <<otherVars, detectBeh, costBeh, env, pc>>

Next ==
    \/ Tick
    \/ \E a \in AudioRefs : CallDetectAll(a)
    \/ \E i \in Positions : TaskStart(i)
    \/ \E i \in Positions : DetectComplete(i)
    \/ Join
    \/ \E a \in AudioRefs, name \in RequestNames : CallDetectOne(a, name)
    \/ \E i \in Positions : SingleComplete(i)
    \/ GetAvailableProviders

Spec == Init /\ [][Next]_vars

\* coordinator.py:14-20 with the connectors of the repository: every
\* provider is the connector its name says, in a world of one file and
\* one vendor answer.
ConnInit ==
    /\ providers \in {r \in Registries : Len(r) <= MaxProviders}
    /\ env \in Envs
    /\ \E a \in AudioRefs :
          detectBeh = [i \in 1..Len(providers) |->
                          ConnectorDetect(providers[i], a, env)]
    /\ costBeh = [i \in 1..Len(providers) |-> "ok"]
    /\ clock = 0
    /\ pc = "idle"
    /\ req = [kind |-> "none", audio |-> None, provider_name |-> None, start_time |-> 0]
    /\ task = [i \in 1..Len(providers) |-> IdleTask]
    /\ completionOrder = <<>>
    /\ response = NoResponse
    /\ detectCalls = [i \in 1..Len(providers) |-> 0]
    /\ costCalls = [i \in 1..Len(providers) |-> 0]
    /\ prevAll = NoResponse
    /\ OthersIdle

\* The coordinator over the repository's connectors.
ConnSpec == ConnInit /\ [][Next]_vars

\* The event loop runs every callback that is ready, and I/O that is not a
\* hang completes: each step of a call in progress is eventually taken.
\* Callers and the clock are under no obligation.
FairSpec ==
    /\ Spec
    /\ \A i \in 1..MaxProviders : WF_vars(i \in Positions /\ TaskStart(i))
    /\ \A i \in 1..MaxProviders : WF_vars(i \in Positions /\ DetectComplete(i))
    /\ \A i \in 1..MaxProviders : WF_vars(i \in Positions /\ SingleComplete(i))
    /\ WF_vars(Join)

\* ------------------------------------------ simultaneous detect_all calls
\* Two callers (two HTTP requests being served) of one coordinator.
Callers == {"first", "second"}

\* test_mock_only.py:31,33: the audio references the callers pass.
ConcAudioRefs == {"hindi_audio.wav", "english_conversation.wav"}

\* The world behind each of these references: the vendor hears Hindi in the
\* first file (15 bytes) and cannot be reached for the second (300000 bytes).
WorldOf(audio) ==
    IF audio = "hindi_audio.wav"
    THEN [kind |-> "world", file |-> [state |-> "ok", size |-> 15],
          vendor |-> HttpAnswer(200, "hi")]
    ELSE [kind |-> "world", file |-> [state |-> "ok", size |-> 300000],
          vendor |-> NetworkError]

\* base.py:23-50 over a connector of the repository: what
\* execute_with_metrics(audio) of the connector called name yields.  Time
\* does not advance in this specification.
ConnectorExecute(name, audio) ==
    WrapperOutcome(name,
                   ConnectorDetect(name, audio, WorldOf(audio)),
                   ConnectorEstimateCost(name, WorldOf(audio).file),
                   ConnectorEstimateCost(name, WorldOf(audio).file),
                   0)

\* A caller's detect_all: not made, at its join, or returned.
ConcTask(state, path, result, overlapped) ==
    [state |-> state, path |-> path, result |-> result, overlapped |-> overlapped]
InFlight(c) == calls[c].state = "gather"

\* Invocation i of caller c is inside a blocking network call.
ConcHoldsLoop(c, i) ==
    /\ InFlight(c)
    /\ calls[c].task[i].state = "io"
    /\ IoKind(providers[i]) = "sync"

\* No invocation but (c, i) holds the event loop's thread.
ConcCanRun(c, i) ==
    \A d \in Callers, j \in Positions :
        (d # c \/ j # i) => ~ConcHoldsLoop(d, j)
ConcLoopFree == \A d \in Callers, j \in Positions : ~ConcHoldsLoop(d, j)

\* Mutant of PathSeen: the connector keeps the path of the invocation it
\* began last in an attribute of the instance and reads it back after the
\* await.
PathSeenOnInstance(c, i) == lastStarted[i]

\* base.py:23, 28, 35: audio_file_path is a parameter of the coroutine, a
\* local of this invocation's frame, when the invocation resumes.
PathSeen(c, i) == calls[c].task[i].path

\* coordinator.py:22-33 for caller c: the coroutines are created with the
\* caller's audio reference and handed to asyncio.gather.  Callers that are
\* in flight together pass different references.
ConcCall(c, audio) ==
    /\ ~InFlight(c)
    /\ ConcLoopFree
    /\ \A d \in Callers \ {c} : InFlight(d) => calls[d].audio # audio
    /\ calls' = [calls EXCEPT ![c] =
                   [state |-> "gather", audio |-> audio,
                    task |-> [i \in Positions |->
                                ConcTask("pending", audio, NoResult, FALSE)],
                    response |-> NoResponse]]
    /\ UNCHANGED <<coordVars, lastStarted, http, ctor, frame>>

\* base.py:25-28 for invocation i of caller c.
ConcTaskStart(c, i) ==
    /\ InFlight(c)
    /\ calls[c].task[i].state = "pending"
    /\ \A j \in 1..(i - 1) : calls[c].task[j].state # "pending"
    /\ ConcCanRun(c, i)
    /\ calls' = [calls EXCEPT ![c].task[i].state = "io"]
    /\ lastStarted' = [lastStarted EXCEPT ![i] = calls[c].task[i].path]
    /\ UNCHANGED <<coordVars, http, ctor, frame>>

\* base.py:28-50 for invocation i of caller c: detect_language ends and the
\* wrapper runs to its end, on the path the invocation sees.
ConcDetectComplete(c, i) ==
    /\ InFlight(c)
    /\ calls[c].task[i].state = "io"
    /\ ConcCanRun(c, i)
    /\ calls' = [calls EXCEPT ![c].task[i] =
                   ConcTask("done", @.path,
                            ConnectorExecute(providers[i], PathSeen(c, i)),
                            lastStarted[i] # @.path)]
    /\ UNCHANGED <<coordVars, lastStarted, http, ctor, frame>>

\* coordinator.py:33-63 for caller c.
ConcJoin(c) ==
    /\ InFlight(c)
    /\ \A i \in Positions : calls[c].task[i].state = "done"
    /\ calls' = [calls EXCEPT
                   ![c].state = "returned",
                   ![c].response =
                       BuildResponse([i \in Positions |-> calls[c].task[i].result], 0)]
    /\ UNCHANGED <<coordVars, lastStarted, http, ctor, frame>>

\* coordinator.py:14-20 with the connectors of the repository, and two
\* callers that have not called yet.
ConcInit ==
    /\ providers \in {r \in Registries : Len(r) <= MaxProviders}
    /\ detectBeh = [i \in 1..Len(providers) |-> [kind |-> "connector", value |-> None]]
    /\ costBeh = [i \in 1..Len(providers) |-> "ok"]
    /\ env = NoEnv
    /\ clock = 0
    /\ pc = "idle"
    /\ req = [kind |-> "none", audio |-> None, provider_name |-> None, start_time |-> 0]
    /\ task = [i \in 1..Len(providers) |-> IdleTask]
    /\ completionOrder = <<>>
    /\ response = NoResponse
    /\ detectCalls = [i \in 1..Len(providers) |-> 0]
    /\ costCalls = [i \in 1..Len(providers) |-> 0]
    /\ prevAll = NoResponse
    /\ calls = [c \in Callers |-> NoCall]
    /\ lastStarted = [i \in 1..Len(providers) |-> None]
    /\ http = NoHttp
    /\ ctor = NoCtor
    /\ frame = NoFrame

ConcNext ==
    \/ \E c \in Callers, a \in ConcAudioRefs : ConcCall(c, a)
    \/ \E c \in Callers, i \in Positions : ConcTaskStart(c, i)
    \/ \E c \in Callers, i \in Positions : ConcDetectComplete(c, i)
    \/ \E c \in Callers : ConcJoin(c)

\* One coordinator serving two callers at once.
ConcSpec == ConcInit /\ [][ConcNext]_vars

\* ------------------------------------------------------- the HTTP layer
\* Paths a client may post: audio files, a text file, an upper-case
\* extension, no extension, a dot file, a dot in a directory name only.
HttpPaths ==
    {"hindi_audio.wav", "notes.txt", "SONG.MP3", "README", ".wav",
     "/data.v2/tamil_speech"}

\* main.py:77: audio_extensions.
AudioExtensions ==
    {<<".", "w", "a", "v">>, <<".", "m", "p", "3">>, <<".", "m", "4", "a">>,
     <<".", "f", "l", "a", "c">>, <<".", "o", "g", "g">>,
     <<".", "a", "a", "c">>}

\* os.path.splitext(path)[1]: from the last dot of the last path component
\* on, provided a character other than a dot precedes it there; else empty.
SplitextExt(cs) ==
    LET base == Basename(cs)
        dots == {k \in 1..Len(base) :
                    /\ base[k] = "."
                    /\ \E j \in 1..(k - 1) : base[j] # "."}
    IN  IF dots = {} THEN <<>>
        ELSE SubSeq(base, CHOOSE k \in dots : \A j \in dots : j <= k, Len(base))

\* main.py:78-80: file_ext in audio_extensions.
ExtensionAccepted(path) == Lower(SplitextExt(PathChars[path])) \in AudioExtensions

\* main.py:69-85 and 113-118: the checks each route makes before it calls
\* the coordinator; "" when the request passes them.
RouteRejection(route, path, exists) ==
    IF ~exists THEN "Audio file not found"
    ELSE IF route = "all" /\ ~ExtensionAccepted(path)
    THEN "Unsupported file format"
    ELSE ""

\* How the coordinator call of a route can end: detect_all returns its
\* response; detect_one raises ValueError for an unregistered name and
\* otherwise returns the wrapper's outcome or lets its exception through.
CoordinatorEnds(route, name) ==
    IF route = "all" THEN {"response"}
    ELSE IF Lookup(name) = 0 THEN {"ValueError"}
    ELSE {"outcome", "Exception"}

\* Mutant of StatusAfter: the single-provider route has no except
\* ValueError clause.
StatusAfterWithoutValueError(route, end) ==
    IF end \in {"response", "outcome"} THEN 200 ELSE 500

\* main.py:88-101 and 121-136: the status the route answers with after the
\* coordinator call ended: the result as it is, ValueError as 400
\* (single-provider route), any other exception as 500.
StatusAfter(route, end) ==
    IF end \in {"response", "outcome"} THEN 200
    ELSE IF route = "one" /\ end = "ValueError" THEN 400
    ELSE 500

\* A client posts a request to one of the two detection routes.
HttpRequest(route, path, exists, name) ==
    /\ http.stage \in {"none", "answered"}
    /\ http' = [stage |-> "validating", route |-> route, path |-> path,
                exists |-> exists,
                provider_name |-> IF route = "one" THEN name ELSE None,
                handed |-> None, end |-> None, status |-> 0, detail |-> ""]
    /\ UNCHANGED <<coordVars, calls, lastStarted, ctor, frame>>

\* main.py:68-85, 112-118: the route's checks; a failed check raises
\* HTTPException(400), which the route's handler raises again.
HttpValidate ==
    /\ http.stage = "validating"
    /\ LET why == RouteRejection(http.route, http.path, http.exists)
       IN  IF why # ""
           THEN http' = [http EXCEPT !.stage = "answered", !.status = 400,
                                     !.detail = why]
           ELSE http' = [http EXCEPT !.stage = "awaiting",
                                     !.handed = http.path]
    /\ UNCHANGED <<coordVars, calls, lastStarted, ctor, frame>>

\* main.py:88-101, 121-136: the awaited coordinator call ends and the route
\* answers.
HttpAnswered(end) ==
    /\ http.stage = "awaiting"
    /\ end \in CoordinatorEnds(http.route, http.provider_name)
    /\ http' = [http EXCEPT !.stage = "answered", !.end = end,
                            !.status = StatusAfter(http.route, end)]
    /\ UNCHANGED <<coordVars, calls, lastStarted, ctor, frame>>

\* main.py:30: the coordinator the module builds, before any request.
HttpInit ==
    /\ providers \in {r \in Registries : Len(r) <= MaxProviders}
    /\ detectBeh = [i \in 1..Len(providers) |-> [kind |-> "connector", value |-> None]]
    /\ costBeh = [i \in 1..Len(providers) |-> "ok"]
    /\ env = NoEnv
    /\ clock = 0
    /\ pc = "idle"
    /\ req = [kind |-> "none", audio |-> None, provider_name |-> None, start_time |-> 0]
    /\ task = [i \in 1..Len(providers) |-> IdleTask]
    /\ completionOrder = <<>>
    /\ response = NoResponse
    /\ detectCalls = [i \in 1..Len(providers) |-> 0]
    /\ costCalls = [i \in 1..Len(providers) |-> 0]
    /\ prevAll = NoResponse
    /\ OthersIdle

HttpNext ==
    \/ \E route \in {"all", "one"}, path \in HttpPaths, exists \in BOOLEAN,
          name \in RequestNames : HttpRequest(route, path, exists, name)
    \/ HttpValidate
    \/ \E end \in {"response", "outcome", "ValueError", "Exception"} :
          HttpAnswered(end)

\* The two detection routes of main.py over the coordinator.
HttpSpec == HttpInit /\ [][HttpNext]_vars

\* ---------------------------------------- language codes out of raw values
\* The code of "en".
EnChars == <<"e", "n">>

\* str.split(sep)[0]: what precedes the first sep.
BeforeFirst(cs, sep) ==
    LET at == {k \in 1..Len(cs) : cs[k] = sep}
    IN  IF at = {} THEN cs
        ELSE SubSeq(cs, 1, (CHOOSE k \in at : \A j \in at : k <= j) - 1)

\* str.strip(): without the whitespace at either end.
Whitespace == {" ", "\n", "\t"}
Strip(cs) ==
    LET solid == {k \in 1..Len(cs) : cs[k] \notin Whitespace}
    IN  IF solid = {} THEN <<>>
        ELSE SubSeq(cs, CHOOSE k \in solid : \A j \in solid : k <= j,
                        CHOOSE k \in solid : \A j \in solid : j <= k)

\* elevenlabs.py:194-206: mappings (the keys written in ASCII).
ElevenLabsMappings ==
    {<<<<"e", "n", "g">>, <<"e", "n">>>>,
     <<<<"e", "n", "g", "l", "i", "s", "h">>, <<"e", "n">>>>,
     <<<<"h", "i", "n">>, <<"h", "i">>>>,
     <<<<"h", "i", "n", "d", "i">>, <<"h", "i">>>>,
     <<<<"f", "r", "a">>, <<"f", "r">>>>,
     <<<<"f", "r", "e", "n", "c", "h">>, <<"f", "r">>>>,
     <<<<"d", "e", "u">>, <<"d", "e">>>>,
     <<<<"g", "e", "r", "m", "a", "n">>, <<"d", "e">>>>,
     <<<<"d", "e", "u", "t", "s", "c", "h">>, <<"d", "e">>>>,
     <<<<"e", "s", "p">>, <<"e", "s">>>>,
     <<<<"s", "p", "a", "n", "i", "s", "h">>, <<"e", "s">>>>,
     <<<<"i", "t", "a">>, <<"i", "t">>>>,
     <<<<"i", "t", "a", "l", "i", "a", "n">>, <<"i", "t">>>>,
     <<<<"i", "t", "a", "l", "i", "a", "n", "o">>, <<"i", "t">>>>,
     <<<<"p", "o", "r">>, <<"p", "t">>>>,
     <<<<"p", "o", "r", "t", "u", "g", "u", "e", "s", "e">>, <<"p", "t">>>>,
     <<<<"j", "p", "n">>, <<"j", "a">>>>,
     <<<<"j", "a", "p", "a", "n", "e", "s", "e">>, <<"j", "a">>>>,
     <<<<"k", "o", "r">>, <<"k", "o">>>>,
     <<<<"k", "o", "r", "e", "a", "n">>, <<"k", "o">>>>,
     <<<<"c", "m", "n">>, <<"z", "h">>>>,
     <<<<"m", "a", "n", "d", "a", "r", "i", "n">>, <<"z", "h">>>>,
     <<<<"c", "h", "i", "n", "e", "s", "e">>, <<"z", "h">>>>,
     <<<<"r", "u", "s">>, <<"r", "u">>>>,
     <<<<"r", "u", "s", "s", "i", "a", "n">>, <<"r", "u">>>>}

\* Mutant of CleanLanguageCode: the region is cut off at "-" only.
CleanLanguageCodeHyphenOnly(raw) ==
    IF raw = <<>> THEN EnChars
    ELSE LET clean_code == BeforeFirst(Lower(raw), "-")
             hits == {m \in ElevenLabsMappings : m[1] = clean_code}
         IN  IF hits = {} THEN clean_code ELSE (CHOOSE m \in hits : TRUE)[2]

\* elevenlabs.py:185-208: _clean_language_code.
CleanLanguageCode(raw) ==
    IF raw = <<>> THEN EnChars
    ELSE LET clean_code == BeforeFirst(BeforeFirst(Lower(raw), "-"), "_")
             hits == {m \in ElevenLabsMappings : m[1] = clean_code}
         IN  IF hits = {} THEN clean_code ELSE (CHOOSE m \in hits : TRUE)[2]

\* gemini.py:56-67: the model's answer stripped and lowercased, if it is one
\* of the valid codes, else "en".
GeminiCode(raw) ==
    LET detected_lang == Lower(Strip(raw))
    IN  IF detected_lang \in GeminiValidCodeChars THEN detected_lang ELSE EnChars

\* sarvam.py:21-25: supported_languages.
SarvamSupportedLanguages ==
    {<<<<"h", "i", "-", "I", "N">>, <<"h", "i">>>>,
     <<<<"b", "n", "-", "I", "N">>, <<"b", "n">>>>,
     <<<<"t", "a", "-", "I", "N">>, <<"t", "a">>>>,
     <<<<"t", "e", "-", "I", "N">>, <<"t", "e">>>>,
     <<<<"g", "u", "-", "I", "N">>, <<"g", "u">>>>,
     <<<<"k", "n", "-", "I", "N">>, <<"k", "n">>>>,
     <<<<"m", "l", "-", "I", "N">>, <<"m", "l">>>>,
     <<<<"m", "r", "-", "I", "N">>, <<"m", "r">>>>,
     <<<<"p", "a", "-", "I", "N">>, <<"p", "a">>>>,
     <<<<"o", "d", "-", "I", "N">>, <<"o", "d">>>>,
     <<<<"e", "n", "-", "I", "N">>, <<"e", "n">>>>}

\* sarvam.py:237-255: _fallback_script_detection over the scripts the text
\* is written in.
FallbackScriptDetection(scripts) ==
    IF "devanagari" \in scripts THEN <<"h", "i">>
    ELSE IF "bengali" \in scripts THEN <<"b", "n">>
    ELSE IF "tamil" \in scripts THEN <<"t", "a">>
    ELSE IF "telugu" \in scripts THEN <<"t", "e">>
    ELSE EnChars

\* sarvam.py:198-235: _detect_language_from_text: the supported language the
\* text-lid answer names (status 200), otherwise the fallback.
SarvamCode(status, raw, scripts) ==
    LET hits == {m \in SarvamSupportedLanguages : m[1] = raw}
    IN  IF status = 200 /\ raw # <<>> /\ hits # {}
        THEN (CHOOSE m \in hits : TRUE)[2]
        ELSE FallbackScriptDetection(scripts)

\* Raw language values of a vendor: a primary part in some spelling, with
\* or without region and script parts.
RawPrimaries ==
    {<<"h", "i">>, <<"H", "I">>, <<"e", "n">>, <<"E", "n", "g">>,
     <<"H", "i", "n", "d", "i">>, <<"z", "h">>, <<"c", "m", "n">>,
     <<"f", "i", "l">>, <<"G", "e", "r", "m", "a", "n">>}
RawSuffixes ==
    {<<>>, <<"-", "I", "N">>, <<"_", "U", "S">>,
     <<"-", "H", "a", "n", "s", "-", "C", "N">>,
     <<"_", "L", "a", "t", "n", "-", "I", "N">>}
RawLanguageValues == {<<>>} \cup {p \o x : p \in RawPrimaries, x \in RawSuffixes}

\* What a generative model wraps its answer in.
RawPaddings == {<<<<>>, <<>>>>, <<<<" ">>, <<"\n">>>>}

\* The scripts of a transcript.
TextScripts == {{}, {"devanagari"}, {"tamil", "devanagari"}, {"bengali", "telugu"}}

\* The calls examined: a connector turning a vendor's raw answer into the
\* language code its detect_language returns.
CodeFrames ==
    {[fn |-> "language_code", self |-> "ElevenLabs", status |-> 200,
      raw |-> r, scripts |-> {}, ret |-> <<>>, done |-> FALSE] :
        r \in RawLanguageValues}
    \cup {[fn |-> "language_code", self |-> "Google Gemini", status |-> 200,
           raw |-> pad[1] \o r \o pad[2], scripts |-> {}, ret |-> <<>>,
           done |-> FALSE] :
             r \in RawLanguageValues, pad \in RawPaddings}
    \cup {[fn |-> "language_code", self |-> UnregisteredName, status |-> st,
           raw |-> r, scripts |-> t, ret |-> <<>>, done |-> FALSE] :
             st \in {200, 500},
             r \in {p \o x : p \in {<<"h", "i">>, <<"H", "I">>, <<"e", "n">>},
                             x \in {<<>>, <<"-", "I", "N">>}},
             t \in TextScripts}

\* The code the connector's detect_language returns for a raw answer.
LanguageCodeOf(f) ==
    CASE f.self = "ElevenLabs" -> CleanLanguageCode(f.raw)
      [] f.self = "Google Gemini" -> GeminiCode(f.raw)
      [] f.self = UnregisteredName -> SarvamCode(f.status, f.raw, f.scripts)

\* The connector computes the code and returns it.
LanguageCodeReturn ==
    /\ frame.fn = "language_code"
    /\ ~frame.done
    /\ frame' = [frame EXCEPT !.ret = LanguageCodeOf(frame), !.done = TRUE]
    /\ UNCHANGED <<coordVars, calls, lastStarted, http, ctor>>

\* No coordinator exists or matters: a connector is exercised on its own.
NoCoordinator ==
    /\ providers = <<>>
    /\ detectBeh = <<>>
    /\ costBeh = <<>>
    /\ env = NoEnv
    /\ clock = 0
    /\ pc = "idle"
    /\ req = [kind |-> "none", audio |-> None, provider_name |-> None, start_time |-> 0]
    /\ task = <<>>
    /\ completionOrder = <<>>
    /\ response = NoResponse
    /\ detectCalls = <<>>
    /\ costCalls = <<>>
    /\ prevAll = NoResponse

CodeInit ==
    /\ NoCoordinator
    /\ calls = <<>>
    /\ lastStarted = <<>>
    /\ http = NoHttp
    /\ ctor = NoCtor
    /\ frame \in CodeFrames

\* Connectors normalising raw vendor language values.
CodeSpec == CodeInit /\ [][LanguageCodeReturn]_vars

\* ------------------------------------------------ mock connectors on files
\* File names: two words, in any spelling, joined by "_" before ".wav",
\* under some directory.
NameWords ==
    {<<"h", "i", "n", "d", "i">>,
     <<"T", "a", "m", "i", "l">>,
     <<"T", "E", "L", "U", "G", "U">>,
     <<"u", "r", "d", "u">>,
     <<"f", "r", "e", "n", "c", "h">>,
     <<"R", "u", "s", "s", "i", "a", "n">>,
     <<"e", "n", "g", "l", "i", "s", "h">>,
     <<"a", "u", "d", "i", "o">>}
Directories ==
    {<<>>,
     <<"/", "d", "a", "t", "a", "/">>,
     <<"h", "i", "n", "d", "i", "/">>,
     <<"C", ":", "/", "T", "a", "m", "i", "l", ".", "d", "/">>}
MockPaths ==
    {d \o a \o <<"_">> \o b \o <<".", "w", "a", "v">> :
        d \in Directories, a \in NameWords, b \in NameWords}

MockNames == {"Sarvam AI (Mock)", "OpenAI (Mock)"}

\* The if/elif chain of a mock connector.
KeywordsOf(name) ==
    IF name = "Sarvam AI (Mock)" THEN SarvamMockKeywords ELSE OpenAIMockKeywords

\* The calls examined: execute_with_metrics of a mock connector on a path.
MockFrames ==
    {[fn |-> "execute_with_metrics", self |-> n, path |-> p, file |-> f,
      time_taken |-> t, ret |-> NoOutcome, done |-> FALSE] :
        n \in MockNames, p \in MockPaths, f \in Files, t \in 0..1}

\* base.py:23-50 around the mock's detect_language and estimate_cost.
MockExecuteWithMetrics ==
    /\ frame.fn = "execute_with_metrics"
    /\ ~frame.done
    /\ frame' = [frame EXCEPT
            !.ret = WrapperOutcome(frame.self,
                        DetectReturns(MockDetect(KeywordsOf(frame.self), frame.path)),
                        ConnectorEstimateCost(frame.self, frame.file),
                        ConnectorEstimateCost(frame.self, frame.file),
                        frame.time_taken),
            !.done = TRUE]
    /\ UNCHANGED <<coordVars, calls, lastStarted, http, ctor>>

MockInit ==
    /\ NoCoordinator
    /\ calls = <<>>
    /\ lastStarted = <<>>
    /\ http = NoHttp
    /\ ctor = NoCtor
    /\ frame \in MockFrames

\* The mock connectors behind the wrapper.
MockSpec == MockInit /\ [][MockExecuteWithMetrics]_vars

\* --------------------------------------------- constructing the coordinator
\* The environment variables that name API keys; each is unset, set to the
\* empty string, or set to a key.
KeyVariables == {"GEMINI_API_KEY", "SARVAM_API_KEY", "OPENAI_API_KEY", "ELEVENLABS_API_KEY"}
KeyValues == {"unset", "empty", "key"}
Environs == [KeyVariables -> KeyValues]

\* Mutant of ConstructorRaises: only Gemini insists on its key.
ConstructorRaisesGeminiOnly(name, environ) ==
    name = "Google Gemini" /\ environ["GEMINI_API_KEY"] # "key"

\* gemini.py:13-15 and elevenlabs.py:13-15: `if not api_key: raise
\* ValueError(...)`; the mocks' constructors read no key.
ConstructorRaises(name, environ) ==
    \/ name = "Google Gemini" /\ environ["GEMINI_API_KEY"] # "key"
    \/ name = "ElevenLabs" /\ environ["ELEVENLABS_API_KEY"] # "key"

\* A coordinator under construction: the list literal of coordinator.py:15-20
\* is evaluated left to right, `built` holds the connectors made so far.
Constructing(environ, built, stage, error) ==
    [stage |-> stage, environ |-> environ, built |-> built, error |-> error]

\* The next connector's constructor runs: it raises, which ends __init__
\* with self.providers never assigned, or its object joins the list.
ConstructConnector ==
    /\ ctor.stage = "building"
    /\ Len(ctor.built) < Len(RegistryOrder)
    /\ LET name == RegistryOrder[Len(ctor.built) + 1]
       IN  IF ConstructorRaises(name, ctor.environ)
           THEN ctor' = Constructing(ctor.environ, ctor.built, "failed", "ValueError")
           ELSE ctor' = Constructing(ctor.environ, Append(ctor.built, name),
                                     "building", None)
    /\ UNCHANGED <<coordVars, calls, lastStarted, http, frame>>

\* coordinator.py:15: the finished list is assigned to self.providers.
AssignProviders ==
    /\ ctor.stage = "building"
    /\ Len(ctor.built) = Len(RegistryOrder)
    /\ providers' = ctor.built
    /\ detectBeh' = [i \in 1..Len(ctor.built) |-> DetectReturns("en")]
    /\ costBeh' = [i \in 1..Len(ctor.built) |-> "ok"]
    /\ task' = [i \in 1..Len(ctor.built) |-> IdleTask]
    /\ detectCalls' = [i \in 1..Len(ctor.built) |-> 0]
    /\ costCalls' = [i \in 1..Len(ctor.built) |-> 0]
    /\ ctor' = [ctor EXCEPT !.stage = "built"]
    /\ UNCHANGED <<env, clock, pc, req, completionOrder, response, prevAll,
                   calls, lastStarted, http, frame>>

CtorInit ==
    /\ NoCoordinator
    /\ calls = <<>>
    /\ lastStarted = <<>>
    /\ http = NoHttp
    /\ frame = NoFrame
    /\ \E environ \in Environs : ctor = Constructing(environ, <<>>, "building", None)

CtorNext == ConstructConnector \/ AssignProviders

\* LanguageDetectionCoordinator() under every setting of the API keys.
CtorSpec == CtorInit /\ [][CtorNext]_vars

\* ------------------------------------------------ Sarvam batch-job polling
\* sarvam.py:117.
max_attempts == 60

\* What the transcript field of a completed job holds.
Transcripts ==
    {<<>>, <<" ">>, <<"n", "a", "m", "a", "s", "t", "e">>,
     <<" ", "h", "i", "\n">>}

\* What one status request meets: no answer at all (requests.get raises), an
\* answer whose body is not JSON, or a status code with a job status; a
\* completed job lists results or none.
PollResponses ==
    {[kind |-> "error", status_code |-> 0, status |-> None, results |-> 0,
      transcript |-> <<>>]}
    \cup {[kind |-> "answer", status_code |-> c, status |-> None, results |-> 0,
           transcript |-> <<>>] : c \in {404, 500}}
    \cup {[kind |-> "answer", status_code |-> 200, status |-> st, results |-> 0,
           transcript |-> <<>>] :
             st \in {Malformed, "queued", "processing", "failed", "unknown",
                     "completed"}}
    \cup {[kind |-> "answer", status_code |-> 200, status |-> "completed",
           results |-> 1, transcript |-> t] : t \in Transcripts}

\* Optional[str]: None, or a string by its characters.
PyNone == [kind |-> "none", chars |-> <<>>]
PyStr(cs) == [kind |-> "str", chars |-> cs]

\* No status request has been made yet.
NoAnswer ==
    [kind |-> "none", status_code |-> 0, status |-> None, results |-> 0,
     transcript |-> <<>>]

\* Mutant of PollBody: a non-200 answer is slept on like an unfinished job.
PollBodyRetryingOnFailure(r) ==
    IF r.kind = "error" \/ r.status = Malformed
    THEN [do |-> "sleep", value |-> PyNone]
    ELSE IF r.status_code # 200 THEN [do |-> "sleep", value |-> PyNone]
    ELSE IF r.status = "completed"
         THEN IF r.results > 0 /\ Strip(r.transcript) # <<>>
              THEN [do |-> "return", value |-> PyStr(Strip(r.transcript))]
              ELSE [do |-> "next", value |-> PyNone]
    ELSE IF r.status = "failed" THEN [do |-> "return", value |-> PyNone]
    ELSE [do |-> "sleep", value |-> PyNone]

\* sarvam.py:120-162: the loop body after the request: return, leave the
\* loop (break; what follows the loop returns None), sleep 10 s and go
\* on, or go on at once.
PollBody(r) ==
    IF r.kind = "error" \/ r.status = Malformed
    THEN [do |-> "sleep", value |-> PyNone]
    ELSE IF r.status_code # 200 THEN [do |-> "return", value |-> PyNone]
    ELSE IF r.status = "completed"
         THEN IF r.results > 0 /\ Strip(r.transcript) # <<>>
              THEN [do |-> "return", value |-> PyStr(Strip(r.transcript))]
              ELSE [do |-> "next", value |-> PyNone]
    ELSE IF r.status = "failed" THEN [do |-> "return", value |-> PyNone]
    ELSE [do |-> "sleep", value |-> PyNone]

\* A _poll_batch_job call: requests made so far, where it stands, the last
\* answer and the value returned.
Polling(attempt, at, last, ret) ==
    [fn |-> "_poll_batch_job", attempt |-> attempt, at |-> at, last |-> last,
     ret |-> ret]

\* One turn of the loop: the status request and what the body does with it.
PollRequest(r) ==
    /\ frame.at = "request"
    /\ frame.attempt < max_attempts
    /\ LET b == PollBody(r)
       IN  frame' = Polling(frame.attempt + 1,
                            CASE b.do = "return" -> "returned"
                              [] b.do = "sleep" -> "sleep"
                              [] b.do = "next" -> "request",
                            r, b.value)
    /\ UNCHANGED <<coordVars, calls, lastStarted, http, ctor>>

\* asyncio.sleep(10) is over: `continue`.
PollWake ==
    /\ frame.at = "sleep"
    /\ frame' = [frame EXCEPT !.at = "request"]
    /\ UNCHANGED <<coordVars, calls, lastStarted, http, ctor>>

\* sarvam.py:164-165: range(max_attempts) is used up: return None.
PollTimedOut ==
    /\ frame.at = "request"
    /\ frame.attempt = max_attempts
    /\ frame' = [frame EXCEPT !.at = "returned", !.ret = PyNone]
    /\ UNCHANGED <<coordVars, calls, lastStarted, http, ctor>>

PollInit ==
    /\ NoCoordinator
    /\ calls = <<>>
    /\ lastStarted = <<>>
    /\ http = NoHttp
    /\ ctor = NoCtor
    /\ frame = Polling(0, "request", NoAnswer, PyNone)

PollNext ==
    \/ \E r \in PollResponses : PollRequest(r)
    \/ PollWake
    \/ PollTimedOut

\* _poll_batch_job against every server; a request (timeout=15) and a sleep
\* both come to an end, so the call always takes its next step.
PollSpec == PollInit /\ [][PollNext]_vars /\ WF_vars(PollNext)

\* ------------------------------------------------ Sarvam detect_language
\* Audio paths by their characters, and the sizes around the two thresholds.
SarvamPaths == {<<"a", ".", "m", "4", "a">>, <<"A", ".", "M", "4", "A">>, <<"a", ".", "w", "a", "v">>}
SarvamSizes == {15, 524288, 524289, 1048576, 1048577}
SarvamFiles ==
    {[state |-> "missing", size |-> 0], [state |-> "unreadable", size |-> 15]}
        \cup {[state |-> "ok", size |-> n] : n \in SarvamSizes}

\* str.endswith.
EndsWith(cs, suffix) ==
    /\ Len(cs) >= Len(suffix)
    /\ SubSeq(cs, Len(cs) - Len(suffix) + 1, Len(cs)) = suffix

\* sarvam.py:257-264: _estimate_duration, in seconds times MB.
EstimateDuration(path, file_size) ==
    IF EndsWith(Lower(path), <<".", "m", "4", "a">>)
    THEN Max(MB, file_size * 60)
    ELSE Max(MB, file_size * 30)

\* Mutant of UseBatch: half a minute already goes to the batch API.
UseBatchFromThirty(path, file_size) == EstimateDuration(path, file_size) >= 30 * MB

\* sarvam.py:48: `if estimated_duration > 30`.
UseBatch(path, file_size) == EstimateDuration(path, file_size) > 30 * MB

\* Transcripts a transcription path can come back with.
SarvamTranscripts ==
    {<<>>, <<" ">>, <<"h", "i">>, <<"n", "a", "m", "a">>,
     <<" ", "n", "a", "m", "a", " ">>, <<"n", "a", "m", "a", "s">>,
     <<"n", "a", "m", "a", "s", "t", "e">>}

\* sarvam.py:185-191 and 137-140: a transcript is returned stripped, None
\* when nothing is left.
StrippedOrNone(t) == IF Strip(t) = <<>> THEN PyNone ELSE PyStr(Strip(t))

\* A detect_language call of the Sarvam connector: where it stands, the
\* requests made so far in order, the transcript obtained and the code
\* returned.
SarvamCall(path, file, at, used, transcript, ret) ==
    [fn |-> "sarvam.detect_language", path |-> path, file |-> file, at |-> at,
     used |-> used, transcript |-> transcript, ret |-> ret]

\* sarvam.py:37-53: a missing file returns "en" at once; otherwise the
\* estimated duration picks the transcription path.
SarvamChoosePath ==
    /\ frame.fn = "sarvam.detect_language"
    /\ frame.at = "start"
    /\ frame' = IF frame.file.state = "missing"
                THEN [frame EXCEPT !.at = "returned", !.ret = EnChars]
                ELSE IF UseBatch(frame.path, frame.file.size)
                     THEN [frame EXCEPT !.at = "batch"]
                     ELSE [frame EXCEPT !.at = "realtime"]
    /\ UNCHANGED <<coordVars, calls, lastStarted, http, ctor>>

\* sarvam.py:55-57: no transcript, or fewer than 5 characters after
\* stripping, returns "en"; otherwise the text goes to language
\* identification.
AfterTranscript(f, transcript) ==
    IF transcript = PyNone \/ Len(Strip(transcript.chars)) < 5
    THEN [f EXCEPT !.at = "returned", !.transcript = transcript, !.ret = EnChars]
    ELSE [f EXCEPT !.at = "text_lid", !.transcript = transcript]

\* sarvam.py:71-110: _use_batch_api: the submission, and the polling when
\* it was accepted (202); any failure is None.
SarvamBatch(submit, polled) ==
    /\ frame.fn = "sarvam.detect_language"
    /\ frame.at = "batch"
    /\ LET transcript == IF frame.file.state = "ok" /\ submit = 202
                         THEN polled ELSE PyNone
       IN  frame' = AfterTranscript([frame EXCEPT !.used = Append(@, "batch")],
                                    transcript)
    /\ UNCHANGED <<coordVars, calls, lastStarted, http, ctor>>

\* sarvam.py:166-196: _use_realtime_api.
SarvamRealtime(status_code, t) ==
    /\ frame.fn = "sarvam.detect_language"
    /\ frame.at = "realtime"
    /\ LET transcript == IF frame.file.state = "ok" /\ status_code = 200
                         THEN StrippedOrNone(t) ELSE PyNone
       IN  frame' = AfterTranscript([frame EXCEPT !.used = Append(@, "realtime")],
                                    transcript)
    /\ UNCHANGED <<coordVars, calls, lastStarted, http, ctor>>

\* sarvam.py:61-65: the text-lid step and the return of its code.
SarvamTextLid(status_code, raw, scripts) ==
    /\ frame.fn = "sarvam.detect_language"
    /\ frame.at = "text_lid"
    /\ frame' = [frame EXCEPT !.at = "returned",
                              !.used = Append(@, "text_lid"),
                              !.ret = SarvamCode(status_code, raw, scripts)]
    /\ UNCHANGED <<coordVars, calls, lastStarted, http, ctor>>

SarvamInit ==
    /\ NoCoordinator
    /\ calls = <<>>
    /\ lastStarted = <<>>
    /\ http = NoHttp
    /\ ctor = NoCtor
    /\ \E path \in SarvamPaths, file \in SarvamFiles :
           frame = SarvamCall(path, file, "start", <<>>, PyNone, <<>>)

SarvamNext ==
    \/ SarvamChoosePath
    \/ \E submit \in {0, 202, 500}, t \in SarvamTranscripts :
           SarvamBatch(submit, StrippedOrNone(t))
    \/ \E status_code \in {0, 200, 500}, t \in SarvamTranscripts :
           SarvamRealtime(status_code, t)
    \/ \E status_code \in {200, 500},
          raw \in {<<"h", "i", "-", "I", "N">>, <<"x", "x">>},
          scripts \in {{}, {"tamil"}} :
           SarvamTextLid(status_code, raw, scripts)

\* SarvamConnector.detect_language against every file and every server.
SarvamSpec == SarvamInit /\ [][SarvamNext]_vars

\* ---------------------------------------------- ElevenLabs detect_language
\* A key that a JSON object does not have.
Absent == [kind |-> "absent", chars |-> <<>>]

\* The value under "alignment": no such key, something that is no object,
\* or an object with or without a "language".
AlignmentValues ==
    {[kind |-> "absent", language |-> Absent],
     [kind |-> "other", language |-> Absent],
     [kind |-> "dict", language |-> Absent],
     [kind |-> "dict", language |-> PyStr(<<"t", "a", "-", "I", "N">>)]}

\* The value under "text": a transcript by what the patterns of
\* _detect_from_text find in it: the scripts it has characters of and the
\* languages whose common words occur in it.
Text(empty, scripts, words) ==
    [kind |-> "text", empty |-> empty, scripts |-> scripts, words |-> words]
NoText == [kind |-> "absent", empty |-> TRUE, scripts |-> {}, words |-> {}]
TextValues ==
    {NoText, Text(TRUE, {}, {}), Text(FALSE, {}, {}),
     Text(FALSE, {<<"r", "u">>, <<"b", "n">>}, {<<"f", "r">>}),
     Text(FALSE, {}, {<<"e", "s">>, <<"d", "e">>})}

\* The JSON bodies of a 200 answer of the speech-to-text endpoint.
TranscriptionResults ==
    {[detected_language |-> dl, language |-> l, alignment |-> al, text |-> t] :
        dl \in {Absent, PyNone, PyStr(<<"h", "i", "-", "I", "N">>)},
        l \in {Absent, PyStr(<<"F", "r", "a">>)},
        al \in AlignmentValues,
        t \in TextValues}

\* elevenlabs.py:138-152: script_patterns, in the order of the dict.
ScriptOrder ==
    <<<<"h", "i">>, <<"b", "n">>, <<"t", "a">>, <<"t", "e">>, <<"k", "n">>, <<"m", "l">>, <<"g", "u">>,
      <<"p", "a">>, <<"a", "r">>, <<"z", "h">>, <<"j", "a">>, <<"k", "o">>, <<"r", "u">>>>

\* elevenlabs.py:162-179: the if/elif chain of word patterns.
WordOrder == <<<<"f", "r">>, <<"d", "e">>, <<"e", "s">>, <<"i", "t">>, <<"p", "t">>>>

\* The first element of an order that belongs to a set, `none` without one.
FirstOf(order, present, none) ==
    LET hits == {k \in 1..Len(order) : order[k] \in present}
    IN  IF hits = {} THEN none
        ELSE order[CHOOSE k \in hits : \A j \in hits : k <= j]

\* elevenlabs.py:130-183: _detect_from_text.
DetectFromText(t) ==
    IF t.empty THEN EnChars
    ELSE FirstOf(ScriptOrder, t.scripts, FirstOf(WordOrder, t.words, EnChars))

\* elevenlabs.py:185-208 on a JSON value: null is falsy.
CleanField(v) == IF v.kind = "none" THEN EnChars ELSE CleanLanguageCode(v.chars)

\* Mutant of ExtractLanguage: "language" is looked at first.
ExtractLanguageFirst(result) ==
    IF result.language # Absent
    THEN [from |-> "language", code |-> CleanField(result.language)]
    ELSE IF result.detected_language # Absent
    THEN [from |-> "detected_language",
          code |-> CleanField(result.detected_language)]
    ELSE IF result.alignment.kind = "dict" /\ result.alignment.language # Absent
    THEN [from |-> "alignment.language",
          code |-> CleanField(result.alignment.language)]
    ELSE IF result.text # NoText /\ ~result.text.empty
    THEN [from |-> "text", code |-> DetectFromText(result.text)]
    ELSE [from |-> "default", code |-> EnChars]

\* elevenlabs.py:107-128: _extract_language_from_result: the code and the
\* field it was taken from.
ExtractLanguage(result) ==
    IF result.detected_language # Absent
    THEN [from |-> "detected_language",
          code |-> CleanField(result.detected_language)]
    ELSE IF result.language # Absent
    THEN [from |-> "language", code |-> CleanField(result.language)]
    ELSE IF result.alignment.kind = "dict" /\ result.alignment.language # Absent
    THEN [from |-> "alignment.language",
          code |-> CleanField(result.alignment.language)]
    ELSE IF result.text # NoText /\ ~result.text.empty
    THEN [from |-> "text", code |-> DetectFromText(result.text)]
    ELSE [from |-> "default", code |-> EnChars]

\* What a transcription request meets: no answer (requests.post raises), a
\* status code without a usable body, or 200 with a body that is JSON or not.
NoResult200 == [detected_language |-> Absent, language |-> Absent,
                alignment |-> [kind |-> "absent", language |-> Absent],
                text |-> NoText]
TranscriptionAnswers ==
    {[status_code |-> c, json |-> FALSE, body |-> NoResult200] :
        c \in {0, 400, 500}}
    \cup {[status_code |-> 200, json |-> FALSE, body |-> NoResult200]}
    \cup {[status_code |-> 200, json |-> TRUE, body |-> b] :
             b \in TranscriptionResults}

\* Mutant of TriesAlternative: every answer but 200 is tried again.
TriesAlternativeOnAnyFailure(answer) ==
    answer.status_code # 0 /\ answer.status_code # 200

\* elevenlabs.py:77: `if response.status_code == 400`.
TriesAlternative(answer) == answer.status_code = 400

\* A detect_language call of the ElevenLabs connector: where it stands, the
\* transcription requests sent so far with their answers, the field the
\* language was taken from and the code returned.
ElevenLabsCall(file, at, requests, from, ret) ==
    [fn |-> "elevenlabs.detect_language", file |-> file, at |-> at,
     requests |-> requests, from |-> from, ret |-> ret]

\* elevenlabs.py:94-104 and 36-42: after the last answer: the language of a
\* 200 answer's JSON body, "en" for anything else.
AfterLastAnswer(f, requests, answer) ==
    IF answer.status_code = 200 /\ answer.json
    THEN LET e == ExtractLanguage(answer.body)
         IN  [f EXCEPT !.at = "returned", !.requests = requests,
                       !.from = e.from, !.ret = e.code]
    ELSE [f EXCEPT !.at = "returned", !.requests = requests,
                   !.from = "failure", !.ret = EnChars]

\* elevenlabs.py:28-30 and 55-56: a missing file returns "en"; so does a
\* file that cannot be read, before any request is sent.
ElevenLabsOpen ==
    /\ frame.fn = "elevenlabs.detect_language"
    /\ frame.at = "start"
    /\ frame' = IF frame.file.state = "ok"
                THEN [frame EXCEPT !.at = "first"]
                ELSE [frame EXCEPT !.at = "returned", !.from = "failure",
                                   !.ret = EnChars]
    /\ UNCHANGED <<coordVars, calls, lastStarted, http, ctor>>

\* elevenlabs.py:58-77: the first request, with the plain file parameter.
ElevenLabsFirstRequest(answer) ==
    /\ frame.fn = "elevenlabs.detect_language"
    /\ frame.at = "first"
    /\ LET requests == Append(frame.requests, [format |-> "plain", answer |-> answer])
       IN  frame' = IF TriesAlternative(answer)
                    THEN [frame EXCEPT !.at = "second", !.requests = requests]
                    ELSE AfterLastAnswer(frame, requests, answer)
    /\ UNCHANGED <<coordVars, calls, lastStarted, http, ctor>>

\* elevenlabs.py:78-90: the second request, with name and MIME type.
ElevenLabsSecondRequest(answer) ==
    /\ frame.fn = "elevenlabs.detect_language"
    /\ frame.at = "second"
    /\ frame' = AfterLastAnswer(frame,
                    Append(frame.requests, [format |-> "named", answer |-> answer]),
                    answer)
    /\ UNCHANGED <<coordVars, calls, lastStarted, http, ctor>>

ElevenLabsInit ==
    /\ NoCoordinator
    /\ calls = <<>>
    /\ lastStarted = <<>>
    /\ http = NoHttp
    /\ ctor = NoCtor
    /\ \E file \in Files : frame = ElevenLabsCall(file, "start", <<>>, "none", <<>>)

ElevenLabsNext ==
    \/ ElevenLabsOpen
    \/ \E answer \in TranscriptionAnswers : ElevenLabsFirstRequest(answer)
    \/ \E answer \in TranscriptionAnswers : ElevenLabsSecondRequest(answer)

\* ElevenLabsConnector.detect_language against every file and every server.
ElevenLabsSpec == ElevenLabsInit /\ [][ElevenLabsNext]_vars

\* ------------------------------------------------- Gemini detect_language
\* What generate_content and response.text give: an exception with its
\* message, or the answer's text character by character.
ModelAnswers ==
    {[raised |-> TRUE, message |-> m, text |-> <<>>] :
        m \in {"quota exceeded", "response was blocked"}}
    \cup {[raised |-> FALSE, message |-> None, text |-> pad[1] \o r \o pad[2]] :
             r \in RawLanguageValues, pad \in RawPaddings}

GeminiPrefix == "Gemini API error: "

\* Mutant of GeminiDetectLanguage: a failure is answered with "en".
GeminiDetectLanguageDefaulting(file, answer) ==
    IF file.state # "ok" THEN DetectReturns("en")
    ELSE IF answer.raised THEN DetectReturns("en")
    ELSE DetectReturns(JoinChars(GeminiCode(answer.text)))

\* gemini.py:20-70: detect_language: open() or the model call raising is
\* raised again with the prefix; otherwise the answer's code.
GeminiDetectLanguage(file, answer) ==
    IF file.state # "ok" THEN DetectRaises(GeminiPrefix \o FileErrorMessage(file))
    ELSE IF answer.raised THEN DetectRaises(GeminiPrefix \o answer.message)
    ELSE DetectReturns(JoinChars(GeminiCode(answer.text)))

\* The calls examined: execute_with_metrics of the Gemini connector.
GeminiFrames ==
    {[fn |-> "gemini.execute_with_metrics", file |-> f, answer |-> a,
      time_taken |-> t, ret |-> NoOutcome, done |-> FALSE] :
        f \in Files, a \in ModelAnswers, t \in 0..1}

\* base.py:23-50 around Gemini's detect_language and estimate_cost.
GeminiExecuteWithMetrics ==
    /\ frame.fn = "gemini.execute_with_metrics"
    /\ ~frame.done
    /\ frame' = [frame EXCEPT
            !.ret = WrapperOutcome("Google Gemini",
                        GeminiDetectLanguage(frame.file, frame.answer),
                        ConnectorEstimateCost("Google Gemini", frame.file),
                        ConnectorEstimateCost("Google Gemini", frame.file),
                        frame.time_taken),
            !.done = TRUE]
    /\ UNCHANGED <<coordVars, calls, lastStarted, http, ctor>>

GeminiInit ==
    /\ NoCoordinator
    /\ calls = <<>>
    /\ lastStarted = <<>>
    /\ http = NoHttp
    /\ ctor = NoCtor
    /\ frame \in GeminiFrames

\* The Gemini connector behind the wrapper, against every file and answer.
GeminiSpec == GeminiInit /\ [][GeminiExecuteWithMetrics]_vars

\* ================================================================ claims
\* detect_language_all_providers has returned its response.
AllReturned == pc = "idle" /\ req.kind = "all" /\ response.kind = "response"

\* detect_language_single_provider was called with a registered name.
OneRegistered == req.kind = "one" /\ req.provider_name \in RegisteredNames

\* detect_language_single_provider was called with an unregistered name.
OneUnregistered == req.kind = "one" /\ req.provider_name \notin RegisteredNames

\* The registry position of a registered name.
PositionOf(name) == CHOOSE i \in Positions : providers[i] = name

\* C1: whatever the order in which the provider invocations complete,
\* detect_all returns exactly N outcomes, every registered provider's name
\* appears exactly once, and the outcome at position i is provider i's.
C1_ResultsInRegistryOrder ==
    AllReturned =>
        /\ Len(response.results) = N
        /\ \A i \in Positions : response.results[i].provider_name = providers[i]
        /\ \A i \in Positions :
              Cardinality({k \in 1..Len(response.results) :
                              response.results[k].provider_name = providers[i]}) = 1

\* A response assembled after the invocations finished out of registry order.
C1_Witness ==
    /\ AllReturned
    /\ N >= 2
    /\ \E k \in Positions : completionOrder[k] # k

\* C2 (as claimed): when one provider's detect raises, every other provider
\* whose detect returns normally has a SUCCESS outcome carrying the language
\* its own detect returned.
C2_OthersSucceedDespiteFailure ==
    AllReturned =>
        \A i, j \in Positions :
            (i # j /\ detectBeh[i].kind = "raise" /\ detectBeh[j].kind = "return")
            => /\ response.results[j].status = SUCCESS
               /\ response.results[j].detected_language = detectBeh[j].value

\* C3 (as claimed): execute_with_metrics never propagates a failure: every
\* finished invocation of the wrapper ended by returning an outcome.
C3_WrapperAlwaysReturnsOutcome ==
    \A i \in Positions : task[i].state = "done" => task[i].result.kind = "outcome"

\* C4: detect_all never fails because of one provider: a finished detect_all
\* call has returned a response, every outcome in it has status SUCCESS or
\* ERROR, and a provider whose invocation yielded an exception at the join
\* has, at its registry position, an ERROR outcome with its name, no
\* language, a zero cost and the exception's text.
C4_JoinExceptionBecomesErrorOutcome ==
    /\ (pc = "idle" /\ req.kind = "all") => response.kind = "response"
    /\ AllReturned =>
        \A i \in Positions :
            /\ response.results[i].status \in {SUCCESS, ERROR}
            /\ task[i].result.kind = "exception" =>
                  /\ response.results[i].provider_name = providers[i]
                  /\ response.results[i].detected_language = None
                  /\ response.results[i].estimated_cost = [tokens |-> 0, dollars |-> 0]
                  /\ response.results[i].status = ERROR
                  /\ response.results[i].error_message = task[i].result.message
                  /\ response.results[i].error_message = CostErrorMessage

\* A response holding the outcome of an invocation that raised at the join.
C4_Witness ==
    /\ AllReturned
    /\ \E i \in Positions : task[i].result.kind = "exception"

\* C5 (as claimed): a detect_all call eventually returns its response, also
\* when a registered provider's detect never completes.
C5_DetectAllEventuallyReturns ==
    (pc = "gather") ~> (pc = "idle" /\ response.kind = "response")

\* C6 (as claimed): with a provider that hangs, once the caller's deadline
\* has elapsed detect_all has returned, and the hanging provider's outcome
\* is an ERROR with a message.
C6_DeadlineEndsTheWait ==
    (/\ req.kind = "all"
     /\ \E i \in Positions : detectBeh[i].kind = "hang"
     /\ clock - req.start_time > Deadline)
    => /\ AllReturned
       /\ \A i \in Positions :
             detectBeh[i].kind = "hang" =>
                /\ response.results[i].status = ERROR
                /\ response.results[i].error_message # None

\* C7 (as claimed): while one provider is blocked on its network I/O, the
\* event loop can still start the next provider's detect call and can still
\* resume any other provider whose own I/O is able to complete.
C7_ProvidersRunConcurrently ==
    \A i, j \in Positions :
        (pc = "gather" /\ i # j /\ task[i].state = "io")
        => /\ (/\ task[j].state = "pending"
               /\ \A k \in 1..(j - 1) : task[k].state # "pending")
              => ENABLED TaskStart(j)
           /\ (task[j].state = "io" /\ detectBeh[j].kind # "hang")
              => ENABLED DetectComplete(j)

\* C8: the response of detect_all exists only when every provider
\* invocation of that call has finished.
C8_ResponseOnlyAfterAllFinished ==
    (req.kind = "all" /\ response.kind = "response")
        => \A i \in Positions : task[i].state = "done"

\* A response of two or more providers that took time to arrive.
C8_Witness ==
    /\ AllReturned
    /\ N >= 2
    /\ response.total_time > 0

\* C9: detect_one with a name no registered provider has raises the
\* not-found error at once, returns no outcome, and calls no provider's
\* detect or estimate_cost.
C9_UnknownProviderNotFound ==
    OneUnregistered =>
        /\ pc = "idle"
        /\ response.kind = "raised"
        /\ response.exception = "ValueError"
        /\ \A i \in Positions :
              /\ task[i].state = "none"
              /\ detectCalls[i] = 0
              /\ costCalls[i] = 0

\* detect_one has answered a request for the unregistered connector's name.
C9_Witness ==
    /\ OneUnregistered
    /\ req.provider_name = UnregisteredName
    /\ response.kind = "raised"

\* C10: detect_one with a registered name gives its caller exactly what
\* the wrapper of that provider yields (its outcome, or the exception it
\* lets through), calls that provider's detect once, and invokes no other
\* registered provider.
C10_SingleEqualsWrapper ==
    OneRegistered =>
        LET p == PositionOf(req.provider_name)
        IN  /\ \A j \in Positions \ {p} :
                  /\ task[j].state = "none"
                  /\ detectCalls[j] = 0
                  /\ costCalls[j] = 0
            /\ detectCalls[p] = 1
            /\ pc = "idle" =>
                  /\ task[p].state = "done"
                  /\ response =
                        SingleReturn(ExecuteWithMetrics(
                            p, task[p].end_time - task[p].start_time))

\* detect_one has returned the outcome of a provider that is not the first
\* of a registry of several.
C10_Witness ==
    /\ OneRegistered
    /\ N >= 2
    /\ PositionOf(req.provider_name) = 2
    /\ pc = "idle"
    /\ response.kind = "outcome"
    /\ response.value.provider_name = req.provider_name

\* Every Detection Outcome in existence: those the wrapper has returned to
\* its awaiter, those in the response of detect_all, and the one detect_one
\* has returned.
OutcomesProduced ==
    {task[i].result.value :
        i \in {j \in Positions : task[j].result.kind = "outcome"}}
    \cup (IF response.kind = "response"
          THEN {response.results[k] : k \in 1..Len(response.results)}
          ELSE {})
    \cup (IF response.kind = "outcome" THEN {response.value} ELSE {})

\* The positions of a response's results that have the given status.
WithStatus(st) ==
    {k \in 1..Len(response.results) : response.results[k].status = st}

\* C11: in every outcome produced by the wrapper or by the coordinator,
\* detected_language is present exactly when the status is SUCCESS and
\* error_message is present exactly when the status is ERROR.
C11_LanguageIffSuccessMessageIffError ==
    \A o \in OutcomesProduced :
        /\ (o.detected_language # None) <=> (o.status = SUCCESS)
        /\ (o.error_message # None) <=> (o.status = ERROR)

\* A response holding a SUCCESS outcome, an ERROR outcome the wrapper built
\* after detect_language had returned, and no outcome built at the join.
C11_Witness ==
    /\ AllReturned
    /\ \E i, j \in Positions :
          /\ response.results[i].status = SUCCESS
          /\ response.results[j].status = ERROR
          /\ detectBeh[j].kind = "return"
    /\ \A i \in Positions : task[i].result.kind = "outcome"

\* C12: in every response of detect_all, successful_providers plus
\* failed_providers equals the number of results.
C12_CountsSumToLength ==
    AllReturned =>
        response.successful_providers + response.failed_providers
            = Len(response.results)

\* A response of two providers, one counted successful and one failed.
C12_Witness ==
    /\ AllReturned
    /\ Len(response.results) = 2
    /\ response.successful_providers = 1
    /\ response.failed_providers = 1

\* C13: in every response of detect_all, successful_providers is the number
\* of results with status SUCCESS, failed_providers is the number with
\* status ERROR, and no result has any other status.
C13_CountsMatchStatuses ==
    AllReturned =>
        /\ response.successful_providers = Cardinality(WithStatus(SUCCESS))
        /\ response.failed_providers = Cardinality(WithStatus(ERROR))
        /\ \A k \in 1..Len(response.results) :
              response.results[k].status \in {SUCCESS, ERROR}

\* A response of several providers none of which succeeded.
C13_Witness ==
    /\ AllReturned
    /\ N >= 2
    /\ WithStatus(ERROR) = 1..Len(response.results)

\* C14 (as claimed): for a registry of two whose first provider's detect
\* returns a code and whose second provider's detect raises with a message,
\* detect_all returns a SUCCESS outcome with exactly that code and no error
\* message, then an ERROR outcome with no language and exactly that
\* message, with successful_providers = 1 and failed_providers = 1.
C14_ReturnThenRaiseScenario ==
    (/\ AllReturned
     /\ N = 2
     /\ detectBeh[1].kind = "return"
     /\ detectBeh[2].kind = "raise")
    => /\ Len(response.results) = 2
       /\ response.results[1].provider_name = providers[1]
       /\ response.results[1].status = SUCCESS
       /\ response.results[1].detected_language = detectBeh[1].value
       /\ response.results[1].error_message = None
       /\ response.results[2].provider_name = providers[2]
       /\ response.results[2].status = ERROR
       /\ response.results[2].detected_language = None
       /\ response.results[2].error_message = detectBeh[2].value
       /\ response.successful_providers = 1
       /\ response.failed_providers = 1

\* C16 (as claimed): whenever a provider's detect returns normally, the
\* wrapper's outcome has status SUCCESS and carries the detected language,
\* whether or not estimate_cost fails.
C16_CostFailureKeepsSuccess ==
    \A i \in Positions :
        (task[i].state = "done" /\ detectBeh[i].kind = "return")
        => /\ task[i].result.value.status = SUCCESS
           /\ task[i].result.value.detected_language = detectBeh[i].value

\* C17 (as claimed): when a provider's detect raises, the wrapper has called
\* estimate_cost and returns an ERROR outcome whose message is the
\* failure's; when estimate_cost raises too, that outcome carries the
\* zero-cost default.
C17_DetectFailureGivesErrorOutcome ==
    \A i \in Positions :
        (task[i].state = "done" /\ detectBeh[i].kind = "raise")
        => /\ costCalls[i] >= 1
           /\ task[i].result.kind = "outcome"
           /\ task[i].result.value.status = ERROR
           /\ task[i].result.value.error_message = detectBeh[i].value
           /\ EstimateCost(i, 1).raised
                 => task[i].result.value.estimated_cost = ZeroCost

\* C19: within one detect_all or detect_one, detect_language of a provider
\* whose wrapper has been entered has been called exactly once, also after
\* it failed, and that of a provider not yet or never entered has not been
\* called; this holds in the same way for a request made after an earlier
\* one has returned its outcomes.
C19_OneDetectAttemptPerRequest ==
    \A i \in Positions :
        /\ task[i].state \in {"io", "done"} => detectCalls[i] = 1
        /\ task[i].state \in {"none", "pending"} => detectCalls[i] = 0

\* A second detect_all has returned, after an earlier one, the ERROR outcome
\* of a provider whose detect raised.
C19_Witness ==
    /\ AllReturned
    /\ prevAll.kind = "response"
    /\ \E i \in Positions :
          /\ detectBeh[i].kind = "raise"
          /\ response.results[i].status = ERROR
          /\ detectCalls[i] = 1

\* C20: a response of detect_all equals, apart from time_taken and
\* total_time, the response an earlier detect_all of the same coordinator
\* gave for the same input: names and order, languages, statuses, error
\* messages, costs and counts.
C20_DetectAllIdempotentModuloTiming ==
    (AllReturned /\ prevAll.kind = "response")
        => StripTiming(response) = prevAll

\* A second response of several providers, finished out of registry order,
\* with outcomes of both statuses.
C20_Witness ==
    /\ AllReturned
    /\ prevAll.kind = "response"
    /\ N >= 2
    /\ response.total_time > 0
    /\ completionOrder[1] # 1
    /\ response.successful_providers >= 1
    /\ response.failed_providers >= 1

\* The wrapper of the concrete connector at position i has finished.
ConnectorDone(i) == env.kind = "world" /\ task[i].state = "done"

\* What each connector's estimate_cost computes for a file of 0 bytes:
\* its smallest estimate.
ZeroByteCost(name) ==
    CASE name = "Google Gemini" -> [tokens |-> 100, dollars |-> 10000]
      [] name = "Sarvam AI (Mock)" -> [tokens |-> 0, dollars |-> 0]
      [] name = "OpenAI (Mock)" -> [tokens |-> 100, dollars |-> 600]
      [] name = "ElevenLabs" -> [tokens |-> 100, dollars |-> 500]

\* C15 (as claimed): estimate_cost of every connector returns, and for a
\* zero-byte file as for a nonexistent one what it returns is that
\* connector's default estimate.
C15_DefaultForEmptyOrMissingFile ==
    \A i \in Positions :
        (ConnectorDone(i) /\ (env.file.state = "missing" \/ env.file.size = 0))
        => /\ task[i].result.kind = "outcome"
           /\ task[i].result.value.estimated_cost = DefaultCost(providers[i])

\* C15 (amended): estimate_cost of every connector returns at its one call,
\* whatever the file; for a nonexistent file it returns the connector's
\* default estimate; for an existing file of 0 bytes it returns the
\* estimate computed from size 0, the connector's smallest, which is the
\* default for Google Gemini only.
C15_NeverRaisesDefaultForMissingFile ==
    \A i \in Positions :
        ConnectorDone(i) =>
            LET cost == task[i].result.value.estimated_cost
            IN  /\ task[i].result.kind = "outcome"
                /\ costCalls[i] = 1
                /\ env.file.state = "missing" => cost = DefaultCost(providers[i])
                /\ (env.file.state = "ok" /\ env.file.size = 0) =>
                      /\ cost = ZeroByteCost(providers[i])
                      /\ (cost = DefaultCost(providers[i]))
                            <=> (providers[i] = "Google Gemini")

\* A mock connector's outcome for an existing file of 0 bytes, carrying an
\* estimate that is not its default.
C15_Witness ==
    \E i \in Positions :
        /\ ConnectorDone(i)
        /\ env.file.state = "ok"
        /\ env.file.size = 0
        /\ providers[i] = "Sarvam AI (Mock)"
        /\ task[i].result.kind = "outcome"
        /\ task[i].result.value.estimated_cost # DefaultCost(providers[i])

\* C18 (as claimed): whenever a connector's provider call fails (the file
\* cannot be read, the connection fails, the vendor answers with an error
\* status or with a payload that cannot be decoded), that provider's
\* outcome has status ERROR, a message and no language.
C18_CallFailureSurfacedAsError ==
    \A i \in Positions :
        (ConnectorDone(i) /\ ProviderCallFails(providers[i], env))
        => /\ task[i].result.kind = "outcome"
           /\ task[i].result.value.status = ERROR
           /\ task[i].result.value.error_message # None
           /\ task[i].result.value.detected_language = None

\* get_available_providers has returned.
Listed == req.kind = "list" /\ response.kind = "names"

\* C22: get_available_providers returns exactly the registered provider
\* names, one per provider, in registry order.
C22_ListIsRegistryNamesInOrder ==
    Listed =>
        /\ Len(response.value) = N
        /\ \A i \in Positions : response.value[i] = ProviderName(providers[i])

\* The names of a registry of several providers have been listed after a
\* detect_all had returned.
C22_Witness ==
    /\ Listed
    /\ N >= 2
    /\ response.value[1] # response.value[N]
    /\ prevAll.kind = "response"

\* C23: no step of any call (detect_all, detect_one, get_available_providers,
\* returning or raising) changes the coordinator's registry.
C23_RegistryNeverChanges == [][providers' = providers]_vars

\* A failing detect_one (unknown name) has been answered after a detect_all
\* in which a provider failed.
C23_Witness ==
    /\ N >= 2
    /\ response.kind = "raised"
    /\ req.kind = "one"
    /\ prevAll.kind = "response"
    /\ prevAll.failed_providers >= 1

AloneResponse(audio) ==
    BuildResponse([i \in Positions |-> ConnectorExecute(providers[i], audio)], 0)

\* C21: of two detect_all calls in flight together with different audio
\* references, every finished provider invocation holds the outcome of the
\* caller's own reference and every returned response is the one the
\* caller's reference gets alone, under every interleaving.
C21_ConcurrentCallsIsolated ==
    \A c \in Callers :
        calls[c].state # "none" =>
            /\ \A i \in Positions :
                  calls[c].task[i].state = "done" =>
                      calls[c].task[i].result
                          = ConnectorExecute(providers[i], calls[c].audio)
            /\ calls[c].state = "returned" =>
                  calls[c].response = AloneResponse(calls[c].audio)

\* Both callers have their responses, which differ, and a provider was
\* entered for one caller while its invocation for the other was in flight.
C21_Witness ==
    /\ \A c \in Callers : calls[c].state = "returned"
    /\ \E c, d \in Callers :
          /\ calls[c].audio # calls[d].audio
          /\ calls[c].response # calls[d].response
          /\ \E i \in Positions : calls[c].task[i].overlapped

\* C25 (as claimed): every audio reference handed to the coordinator, on
\* either route, names an existing file with an accepted extension, and a
\* request answered with a failed check was never handed to the coordinator.
C25_HandedReferencesValidated ==
    /\ (http.stage \in {"awaiting", "answered"} /\ http.handed # None)
          => /\ http.exists
             /\ ExtensionAccepted(http.handed)
    /\ (http.stage = "answered" /\ http.detail # "") => http.handed = None

\* C27: on the single-provider route a request naming an unregistered
\* provider is answered with status 400, whatever the file, and its answer
\* is no Detection Outcome.
C27_UnknownProviderIsClientError ==
    (/\ http.stage = "answered"
     /\ http.route = "one"
     /\ http.provider_name \notin RegisteredNames)
    => /\ http.status = 400
       /\ http.end # "outcome"

\* The coordinator was called for an existing file with an unregistered
\* name, raised, and the route has answered.
C27_Witness ==
    /\ http.stage = "answered"
    /\ http.route = "one"
    /\ http.provider_name = UnregisteredName
    /\ http.exists
    /\ http.handed # None
    /\ http.end = "ValueError"

\* A lowercase primary subtag: one or more lowercase letters, so no "-" or
\* "_" part and no uppercase letter.
IsPrimarySubtag(cs) ==
    /\ Len(cs) >= 1
    /\ \A k \in 1..Len(cs) : \E j \in 1..Len(LowerCase) : cs[k] = LowerCase[j]

RECURSIVE FirstKeywordCode(_, _)
\* The code of the first keyword of the chain that the name contains, "en"
\* when the chain is used up.
FirstKeywordCode(keywords, name) ==
    IF keywords = <<>> THEN "en"
    ELSE IF Contains(name, Head(keywords).word) THEN Head(keywords).code
    ELSE FirstKeywordCode(Tail(keywords), name)

RequiredKeyMissing ==
    \E v \in {"GEMINI_API_KEY", "ELEVENLABS_API_KEY"} : ctor.environ[v] # "key"

PollReturned == frame.fn = "_poll_batch_job" /\ frame.at = "returned"

\* The last answer was a completed job with a transcript that is not blank.
GotTranscript ==
    /\ frame.last.kind = "answer"
    /\ frame.last.status_code = 200
    /\ frame.last.status = "completed"
    /\ frame.last.results > 0
    /\ Strip(frame.last.transcript) # <<>>

\* The last answer was a failed job or a status code other than 200.
GotFailure ==
    /\ frame.last.kind = "answer"
    /\ \/ frame.last.status_code # 200
       \/ frame.last.status = "failed"

\* What holds at every moment of a _poll_batch_job call.
PollingSafe ==
    /\ frame.attempt <= max_attempts
    /\ (PollReturned /\ frame.ret # PyNone) =>
           (GotTranscript /\ frame.ret = PyStr(Strip(frame.last.transcript)))
    /\ GotTranscript => (PollReturned /\ frame.ret # PyNone)
    /\ GotFailure => (PollReturned /\ frame.ret = PyNone)
    /\ (frame.attempt = max_attempts /\ ~GotTranscript) =>
           (frame.at \in {"sleep", "request"} \/ (PollReturned /\ frame.ret = PyNone))

\* C30: _poll_batch_job terminates against every sequence of server
\* answers after at most 60 status requests: it returns the transcript only
\* on a 200 answer with status "completed" and a non-empty transcript,
\* returns None at once on status "failed" or on a non-200 answer, and
\* returns None once the 60 attempts are used up.
C30_PollingTerminatesWithin60 ==
    /\ []PollingSafe
    /\ <>PollReturned
    /\ [](PollReturned => [](PollReturned /\ frame.attempt <= max_attempts))

\* All 60 requests were made, the job was still processing at the last one,
\* and the call returned None.
C30_Witness ==
    /\ PollReturned
    /\ frame.attempt = max_attempts
    /\ frame.last.status = "processing"
    /\ frame.ret = PyNone

\* C31: in Sarvam batch-job polling, every status request that does not
\* end the polling is followed by the 10-second wait before the next
\* request, whatever the server answered, a completed job with no results
\* or an empty transcript included.
C31_EveryOpenPollIsFollowedByWait ==
    [][(/\ frame.fn = "_poll_batch_job"
        /\ frame'.attempt = frame.attempt + 1
        /\ frame'.at # "returned") => frame'.at = "sleep"]_vars

\* A Sarvam detect_language call has returned.
SarvamReturned == frame.fn = "sarvam.detect_language" /\ frame.at = "returned"

\* The transcription paths among the requests made, in order.
PathsUsed == SelectSeq(frame.used, LAMBDA u : u \in {"batch", "realtime"})

\* The estimate of the file's duration exceeds 30 seconds.
OverThirtySeconds == EstimateDuration(frame.path, frame.file.size) > 30 * MB

\* Text language identification is called exactly when the transcript has
\* at least 5 characters after stripping, and "en" is returned otherwise.
TextLidOnlyOnMeaningfulTranscript ==
    LET meaningful == /\ frame.transcript # PyNone
                      /\ Len(Strip(frame.transcript.chars)) >= 5
        called == \E k \in 1..Len(frame.used) : frame.used[k] = "text_lid"
    IN  /\ called <=> meaningful
        /\ ~called => frame.ret = EnChars

\* C32 as stated: every call of the Sarvam connector's detect uses exactly
\* one transcription path, the batch API if and only if the estimated
\* duration exceeds 30 seconds and the real-time API otherwise, and calls
\* text language identification only for a transcript of at least 5
\* characters after stripping, returning "en" otherwise.
C32_ExactlyOnePathPerCall ==
    SarvamReturned =>
        /\ PathsUsed = IF OverThirtySeconds THEN <<"batch">> ELSE <<"realtime">>
        /\ TextLidOnlyOnMeaningfulTranscript

\* C32, amended: a call on an existing file uses exactly one transcription
\* path, chosen by the estimated duration as stated; a call on a missing
\* file uses none and returns "en"; text language identification is
\* called only for a transcript of at least 5 characters.
C32_OnePathPerCallOnExistingFile ==
    SarvamReturned =>
        /\ frame.file.state # "missing" =>
               PathsUsed = IF OverThirtySeconds THEN <<"batch">> ELSE <<"realtime">>
        /\ frame.file.state = "missing" =>
               (frame.used = <<>> /\ frame.ret = EnChars)
        /\ TextLidOnlyOnMeaningfulTranscript

\* An .m4a file of exactly half a megabyte is estimated at 30 seconds: it
\* went to the real-time API, whose transcript was identified.
C32_Witness ==
    /\ SarvamReturned
    /\ frame.file = [state |-> "ok", size |-> 524288]
    /\ EndsWith(Lower(frame.path), <<".", "m", "4", "a">>)
    /\ frame.used = <<"realtime", "text_lid">>
    /\ frame.ret = <<"h", "i">>

Extracted ==
    /\ frame.fn = "elevenlabs.detect_language"
    /\ frame.at = "returned"
    /\ frame.from \notin {"none", "failure"}

\* The response the language was extracted from.
VendorResponse == frame.requests[Len(frame.requests)].answer.body

HasAlignmentLanguage(r) == r.alignment.kind = "dict" /\ r.alignment.language # Absent
HasNonEmptyText(r) == r.text.kind = "text" /\ ~r.text.empty

\* C34: the ElevenLabs connector takes the language of a vendor response
\* from "detected_language" if present, else from "language", else from
\* "alignment.language", else from script and word detection on a
\* non-empty "text", else returns "en"; a lower-priority field is never
\* used when a higher-priority one is present.
C34_ExtractionFollowsFixedPriority ==
    Extracted =>
        LET r == VendorResponse
        IN  /\ r.detected_language # Absent =>
                   /\ frame.from = "detected_language"
                   /\ frame.ret = CleanField(r.detected_language)
            /\ (r.detected_language = Absent /\ r.language # Absent) =>
                   /\ frame.from = "language"
                   /\ frame.ret = CleanField(r.language)
            /\ (/\ r.detected_language = Absent
                /\ r.language = Absent
                /\ HasAlignmentLanguage(r)) =>
                   /\ frame.from = "alignment.language"
                   /\ frame.ret = CleanField(r.alignment.language)
            /\ (/\ r.detected_language = Absent
                /\ r.language = Absent
                /\ ~HasAlignmentLanguage(r)
                /\ HasNonEmptyText(r)) =>
                   /\ frame.from = "text"
                   /\ frame.ret = DetectFromText(r.text)
            /\ (/\ r.detected_language = Absent
                /\ r.language = Absent
                /\ ~HasAlignmentLanguage(r)
                /\ ~HasNonEmptyText(r)) =>
                   /\ frame.from = "default"
                   /\ frame.ret = EnChars

\* The response had no "detected_language" but a "language", an
\* "alignment.language" and a text in other languages: "fr" of "Fra" won.
C34_Witness ==
    /\ Extracted
    /\ VendorResponse.detected_language = Absent
    /\ VendorResponse.language = PyStr(<<"F", "r", "a">>)
    /\ HasAlignmentLanguage(VendorResponse)
    /\ HasNonEmptyText(VendorResponse)
    /\ VendorResponse.text.scripts # {}
    /\ frame.from = "language"
    /\ frame.ret = <<"f", "r">>

\* The wrapper has returned or raised for a Gemini call.
GeminiDone == frame.fn = "gemini.execute_with_metrics" /\ frame.done

\* Reading the file or calling the model failed, with this message.
GeminiFailed == frame.file.state # "ok" \/ frame.answer.raised
GeminiCause ==
    IF frame.file.state # "ok" THEN FileErrorMessage(frame.file)
    ELSE frame.answer.message

\* C35: the Gemini connector's detect returns only a code of its list of
\* valid codes, "en" for any other answer of the model; a failure while
\* reading the file or calling the model is raised again with the prefix
\* "Gemini API error: ", so that the wrapper's outcome is ERROR with that
\* message and no language, not a defaulted language.
C35_GeminiValidCodeOrError ==
    GeminiDone =>
        /\ frame.ret.kind = "outcome"
        /\ GeminiFailed =>
               /\ frame.ret.value.status = ERROR
               /\ frame.ret.value.detected_language = None
               /\ frame.ret.value.error_message = GeminiPrefix \o GeminiCause
        /\ ~GeminiFailed =>
               /\ frame.ret.value.status = SUCCESS
               /\ frame.ret.value.detected_language \in GeminiValidCodes
               /\ frame.ret.value.detected_language =
                      IF Lower(Strip(frame.answer.text)) \in GeminiValidCodeChars
                      THEN JoinChars(Lower(Strip(frame.answer.text)))
                      ELSE "en"

\* The file is missing: open() raised, and the wrapper answered ERROR with
\* the prefixed message although the model would have said "hi".
C35_Witness ==
    /\ GeminiDone
    /\ frame.file.state = "missing"
    /\ frame.answer.text = <<"h", "i">>
    /\ frame.ret.kind = "outcome"
    /\ frame.ret.value.status = ERROR
    /\ frame.ret.value.error_message = "Gemini API error: No such file or directory"
====
